---- MODULE Spec2Model ----
(***************************************************************************)
(* A model of the HPACK codec (RFC 7541) of this repository: the dynamic   *)
(* table with its size accounting (table.rs), the unified index space      *)
(* (table.rs), the integer and string literal codecs (literal.rs), the     *)
(* field representations (field.rs, signal.rs) and the header block        *)
(* decoder and encoder (decoder.rs, encoder.rs).                           *)
(*                                                                         *)
(* Octets are integers 0..255, octet strings are sequences of octets, and  *)
(* a header field is a record [name, value] of two octet strings.          *)
(***************************************************************************)
EXTENDS Integers, Sequences, FiniteSets, TLC

VARIABLES
    table,      \* the DynamicTable of the Table under test (the decoder's table)
    last,       \* what the last operation was given and what it returned
    block,      \* the header block handed to Decoder::enter_header_block
    offset,     \* SliceReader.offset of the live HeaderBlockDecoder
    phase,      \* "idle": no block is at hand, "block": a HeaderBlockDecoder is
                \* alive, "failed": enter_header_block returned an error
    build,      \* "debug": arithmetic overflow panics, "release": it wraps
    panicked,   \* "" or the kind of panic that ended the run
    etable,     \* the DynamicTable of the Encoder's Table
    updates,    \* Encoder.dynamic_table_size_updates
    sink,       \* the octets the live HeaderBlockEncoder has written
    ephase      \* "idle": no HeaderBlockEncoder is alive, "block": one is

vars == <<table, last, block, offset, phase, build, panicked, etable, updates, sink, ephase>>

decoderVars == <<block, offset, phase>>
encoderVars == <<etable, updates, sink, ephase>>

(***************************************************************************)
(* Bounds of the model.                                                    *)
(***************************************************************************)
\* the largest size limit a table is created with or set to
MaxLimit == 120
\* the length of the longest header value pushed directly
MaxStr == 40

\* the number of octets of the longest header block
MaxBlockLen == 3

U16 == 65536

\* the octet string made of n copies of the octet c
ByteStr(c, n) == [i \in 1..n |-> c]

\* the size limits the operations are driven with
Limits == {0, 40, 80, MaxLimit}

\* the names and values DynamicTable::push is driven with
Names == {<<>>, ByteStr(97, 8), ByteStr(110, 8)}
Values == {<<>>, ByteStr(98, 8), ByteStr(118, MaxStr)}

(***************************************************************************)
(* Static table (RFC 7541 Appendix A).                                     *)
(***************************************************************************)
StaticEntry_entries_count == 61

StaticTable ==
  <<
     [name |-> <<58, 97, 117, 116, 104, 111, 114, 105, 116, 121>>, value |-> <<>>],  \* 1 :authority
     [name |-> <<58, 109, 101, 116, 104, 111, 100>>, value |-> <<71, 69, 84>>],  \* 2 :method GET
     [name |-> <<58, 109, 101, 116, 104, 111, 100>>, value |-> <<80, 79, 83, 84>>],  \* 3 :method POST
     [name |-> <<58, 112, 97, 116, 104>>, value |-> <<47>>],  \* 4 :path /
     [name |-> <<58, 112, 97, 116, 104>>, value |-> <<47, 105, 110, 100, 101, 120, 46, 104, 116, 109, 108>>],  \* 5 :path /index.html
     [name |-> <<58, 115, 99, 104, 101, 109, 101>>, value |-> <<104, 116, 116, 112>>],  \* 6 :scheme http
     [name |-> <<58, 115, 99, 104, 101, 109, 101>>, value |-> <<104, 116, 116, 112, 115>>],  \* 7 :scheme https
     [name |-> <<58, 115, 116, 97, 116, 117, 115>>, value |-> <<50, 48, 48>>],  \* 8 :status 200
     [name |-> <<58, 115, 116, 97, 116, 117, 115>>, value |-> <<50, 48, 52>>],  \* 9 :status 204
     [name |-> <<58, 115, 116, 97, 116, 117, 115>>, value |-> <<50, 48, 54>>],  \* 10 :status 206
     [name |-> <<58, 115, 116, 97, 116, 117, 115>>, value |-> <<51, 48, 52>>],  \* 11 :status 304
     [name |-> <<58, 115, 116, 97, 116, 117, 115>>, value |-> <<52, 48, 48>>],  \* 12 :status 400
     [name |-> <<58, 115, 116, 97, 116, 117, 115>>, value |-> <<52, 48, 52>>],  \* 13 :status 404
     [name |-> <<58, 115, 116, 97, 116, 117, 115>>, value |-> <<53, 48, 48>>],  \* 14 :status 500
     [name |-> <<97, 99, 99, 101, 112, 116, 45, 99, 104, 97, 114, 115, 101, 116>>, value |-> <<>>],  \* 15 accept-charset
     [name |-> <<97, 99, 99, 101, 112, 116, 45, 101, 110, 99, 111, 100, 105, 110, 103>>, value |-> <<103, 122, 105, 112, 44, 32, 100, 101, 102, 108, 97, 116, 101>>],  \* 16 accept-encoding gzip, deflate
     [name |-> <<97, 99, 99, 101, 112, 116, 45, 108, 97, 110, 103, 117, 97, 103, 101>>, value |-> <<>>],  \* 17 accept-language
     [name |-> <<97, 99, 99, 101, 112, 116, 45, 114, 97, 110, 103, 101, 115>>, value |-> <<>>],  \* 18 accept-ranges
     [name |-> <<97, 99, 99, 101, 112, 116>>, value |-> <<>>],  \* 19 accept
     [name |-> <<97, 99, 99, 101, 115, 115, 45, 99, 111, 110, 116, 114, 111, 108, 45, 97, 108, 108, 111, 119, 45, 111, 114, 105, 103, 105, 110>>, value |-> <<>>],  \* 20 access-control-allow-origin
     [name |-> <<97, 103, 101>>, value |-> <<>>],  \* 21 age
     [name |-> <<97, 108, 108, 111, 119>>, value |-> <<>>],  \* 22 allow
     [name |-> <<97, 117, 116, 104, 111, 114, 105, 122, 97, 116, 105, 111, 110>>, value |-> <<>>],  \* 23 authorization
     [name |-> <<99, 97, 99, 104, 101, 45, 99, 111, 110, 116, 114, 111, 108>>, value |-> <<>>],  \* 24 cache-control
     [name |-> <<99, 111, 110, 116, 101, 110, 116, 45, 100, 105, 115, 112, 111, 115, 105, 116, 105, 111, 110>>, value |-> <<>>],  \* 25 content-disposition
     [name |-> <<99, 111, 110, 116, 101, 110, 116, 45, 101, 110, 99, 111, 100, 105, 110, 103>>, value |-> <<>>],  \* 26 content-encoding
     [name |-> <<99, 111, 110, 116, 101, 110, 116, 45, 108, 97, 110, 103, 117, 97, 103, 101>>, value |-> <<>>],  \* 27 content-language
     [name |-> <<99, 111, 110, 116, 101, 110, 116, 45, 108, 101, 110, 103, 116, 104>>, value |-> <<>>],  \* 28 content-length
     [name |-> <<99, 111, 110, 116, 101, 110, 116, 45, 108, 111, 99, 97, 116, 105, 111, 110>>, value |-> <<>>],  \* 29 content-location
     [name |-> <<99, 111, 110, 116, 101, 110, 116, 45, 114, 97, 110, 103, 101>>, value |-> <<>>],  \* 30 content-range
     [name |-> <<99, 111, 110, 116, 101, 110, 116, 45, 116, 121, 112, 101>>, value |-> <<>>],  \* 31 content-type
     [name |-> <<99, 111, 111, 107, 105, 101>>, value |-> <<>>],  \* 32 cookie
     [name |-> <<100, 97, 116, 101>>, value |-> <<>>],  \* 33 date
     [name |-> <<101, 116, 97, 103>>, value |-> <<>>],  \* 34 etag
     [name |-> <<101, 120, 112, 101, 99, 116>>, value |-> <<>>],  \* 35 expect
     [name |-> <<101, 120, 112, 105, 114, 101, 115>>, value |-> <<>>],  \* 36 expires
     [name |-> <<102, 114, 111, 109>>, value |-> <<>>],  \* 37 from
     [name |-> <<104, 111, 115, 116>>, value |-> <<>>],  \* 38 host
     [name |-> <<105, 102, 45, 109, 97, 116, 99, 104>>, value |-> <<>>],  \* 39 if-match
     [name |-> <<105, 102, 45, 109, 111, 100, 105, 102, 105, 101, 100, 45, 115, 105, 110, 99, 101>>, value |-> <<>>],  \* 40 if-modified-since
     [name |-> <<105, 102, 45, 110, 111, 110, 101, 45, 109, 97, 116, 99, 104>>, value |-> <<>>],  \* 41 if-none-match
     [name |-> <<105, 102, 45, 114, 97, 110, 103, 101>>, value |-> <<>>],  \* 42 if-range
     [name |-> <<105, 102, 45, 117, 110, 109, 111, 100, 105, 102, 105, 101, 100, 45, 115, 105, 110, 99, 101>>, value |-> <<>>],  \* 43 if-unmodified-since
     [name |-> <<108, 97, 115, 116, 45, 109, 111, 100, 105, 102, 105, 101, 100>>, value |-> <<>>],  \* 44 last-modified
     [name |-> <<108, 105, 110, 107>>, value |-> <<>>],  \* 45 link
     [name |-> <<108, 111, 99, 97, 116, 105, 111, 110>>, value |-> <<>>],  \* 46 location
     [name |-> <<109, 97, 120, 45, 102, 111, 114, 119, 97, 114, 100, 115>>, value |-> <<>>],  \* 47 max-forwards
     [name |-> <<112, 114, 111, 120, 121, 45, 97, 117, 116, 104, 101, 110, 116, 105, 99, 97, 116, 101>>, value |-> <<>>],  \* 48 proxy-authenticate
     [name |-> <<112, 114, 111, 120, 121, 45, 97, 117, 116, 104, 111, 114, 105, 122, 97, 116, 105, 111, 110>>, value |-> <<>>],  \* 49 proxy-authorization
     [name |-> <<114, 97, 110, 103, 101>>, value |-> <<>>],  \* 50 range
     [name |-> <<114, 101, 102, 101, 114, 101, 114>>, value |-> <<>>],  \* 51 referer
     [name |-> <<114, 101, 102, 114, 101, 115, 104>>, value |-> <<>>],  \* 52 refresh
     [name |-> <<114, 101, 116, 114, 121, 45, 97, 102, 116, 101, 114>>, value |-> <<>>],  \* 53 retry-after
     [name |-> <<115, 101, 114, 118, 101, 114>>, value |-> <<>>],  \* 54 server
     [name |-> <<115, 101, 116, 45, 99, 111, 111, 107, 105, 101>>, value |-> <<>>],  \* 55 set-cookie
     [name |-> <<115, 116, 114, 105, 99, 116, 45, 116, 114, 97, 110, 115, 112, 111, 114, 116, 45, 115, 101, 99, 117, 114, 105, 116, 121>>, value |-> <<>>],  \* 56 strict-transport-security
     [name |-> <<116, 114, 97, 110, 115, 102, 101, 114, 45, 101, 110, 99, 111, 100, 105, 110, 103>>, value |-> <<>>],  \* 57 transfer-encoding
     [name |-> <<117, 115, 101, 114, 45, 97, 103, 101, 110, 116>>, value |-> <<>>],  \* 58 user-agent
     [name |-> <<118, 97, 114, 121>>, value |-> <<>>],  \* 59 vary
     [name |-> <<118, 105, 97>>, value |-> <<>>],  \* 60 via
     [name |-> <<119, 119, 119, 45, 97, 117, 116, 104, 101, 110, 116, 105, 99, 97, 116, 101>>, value |-> <<>>]  \* 61 www-authenticate
  >>

\* StaticEntry::from_index followed by HeaderField::from(StaticEntry)
StaticEntry_from_index(index) ==
    IF index >= 1 /\ index <= StaticEntry_entries_count
    THEN [some |-> TRUE, field |-> StaticTable[index]]
    ELSE [some |-> FALSE, field |-> [name |-> <<>>, value |-> <<>>]]

Index_dynamic_table_offset == StaticEntry_entries_count + 1

(***************************************************************************)
(* Header fields and the dynamic table.                                    *)
(***************************************************************************)
HeaderField_from_cow(name, value) == [name |-> name, value |-> value]

NoField == HeaderField_from_cow(<<>>, <<>>)

entry_size(field) == Len(field.name) + Len(field.value) + 32

RECURSIVE SumEntrySizes(_)
SumEntrySizes(entries) ==
    IF entries = <<>> THEN 0
    ELSE entry_size(Head(entries)) + SumEntrySizes(Tail(entries))

DynamicTable_new(max_size) ==
    [entries |-> <<>>, size |-> 0,
     size_soft_limit |-> max_size, size_hard_limit |-> max_size]

\* a pop at the wrong end of the queue: the newest entry is removed
pop_back_front(entries) == Tail(entries)

\* VecDeque::pop_back: the entry removed is the last one, the oldest
pop_back(entries) == SubSeq(entries, 1, Len(entries) - 1)

\* an insertion at the wrong end of the queue
push_front_back(entries, field) == entries \o <<field>>

\* VecDeque::push_front
push_front(entries, field) == <<field>> \o entries

\* The loop of evict_exceeded_entries.  The result is the table when the loop
\* ends, and panic is "expect" when pop_back found no entry, "overflow" when
\* a u16 subtraction went below zero in a debug build.
RECURSIVE evict_exceeded_entries(_, _)
evict_exceeded_entries(t, new_entry_size) ==
    IF t.size_soft_limit < new_entry_size /\ build = "debug"
    THEN [t |-> t, panic |-> "overflow"]
    ELSE IF (t.size_soft_limit - new_entry_size) % U16 < t.size
    THEN IF t.entries = <<>>
         THEN [t |-> t, panic |-> "expect"]
         ELSE LET evicted == t.entries[Len(t.entries)]
                  popped == [t EXCEPT !.entries = pop_back(@)]
              IN  IF t.size < entry_size(evicted) /\ build = "debug"
                  THEN [t |-> popped, panic |-> "overflow"]
                  ELSE evict_exceeded_entries(
                           [popped EXCEPT !.size = (@ - entry_size(evicted)) % U16],
                           new_entry_size)
    ELSE [t |-> t, panic |-> ""]

\* DynamicTable::push.  ret is "Some" (the candidate is handed back), "None"
\* (the candidate was inserted) or "panic".
DynamicTable_push(t, name, value) ==
    LET field == HeaderField_from_cow(name, value)
        es == entry_size(field)
    IN  IF t.size_soft_limit < es
        THEN [t |-> [t EXCEPT !.entries = <<>>], ret |-> "Some", panic |-> ""]
        ELSE LET ev == evict_exceeded_entries(t, es)
             IN  IF ev.panic # ""
                 THEN [t |-> ev.t, ret |-> "panic", panic |-> ev.panic]
                 ELSE IF ev.t.size + es >= U16 /\ build = "debug"
                 THEN [t |-> ev.t, ret |-> "panic", panic |-> "overflow"]
                 ELSE [t |-> [ev.t EXCEPT !.size = (@ + es) % U16,
                                          !.entries = push_front(@, field)],
                       ret |-> "None", panic |-> ""]

\* set_size_soft_limit without the test against the hard limit
DynamicTable_set_size_soft_limit_unchecked(t, max_size) ==
    [t |-> [t EXCEPT !.size_soft_limit = max_size], ret |-> "Ok", panic |-> ""]

\* set_size_soft_limit leaving the eviction to the next push
DynamicTable_set_size_soft_limit_deferred(t, max_size) ==
    IF ~(max_size <= t.size_hard_limit)
    THEN [t |-> t, ret |-> "Err", panic |-> ""]
    ELSE [t |-> [t EXCEPT !.size_soft_limit = max_size], ret |-> "Ok", panic |-> ""]

\* DynamicTable::set_size_soft_limit.  ret is "Ok", "Err" or "panic".
DynamicTable_set_size_soft_limit(t, max_size) ==
    IF ~(max_size <= t.size_hard_limit)
    THEN [t |-> t, ret |-> "Err", panic |-> ""]
    ELSE LET ev == evict_exceeded_entries([t EXCEPT !.size_soft_limit = max_size], 0)
         IN  [t |-> ev.t, ret |-> IF ev.panic # "" THEN "panic" ELSE "Ok",
              panic |-> ev.panic]

\* DynamicTable::set_size_hard_limit.
DynamicTable_set_size_hard_limit(t, max_size) ==
    LET t1 == [t EXCEPT !.size_hard_limit = max_size]
    IN  IF t1.size_hard_limit < t1.size_soft_limit
        THEN DynamicTable_set_size_soft_limit(t1, max_size)
        ELSE [t |-> t1, ret |-> "Ok", panic |-> ""]

(***************************************************************************)
(* The unified index space of Table.                                       *)
(***************************************************************************)
\* Table::len
Table_len(t) == (StaticEntry_entries_count + Len(t.entries)) % U16

\* Table::get.  Index 0 is no static entry, and 0 - 62 is a u16 subtraction
\* that panics in a debug build and wraps in a release build.
Table_get(t, index) ==
    LET static == StaticEntry_from_index(index)
    IN  IF static.some
        THEN [ret |-> "Ok", field |-> static.field, panic |-> ""]
        ELSE IF index < Index_dynamic_table_offset /\ build = "debug"
        THEN [ret |-> "panic", field |-> NoField, panic |-> "overflow"]
        ELSE LET dynamic_table_entry_index == (index - Index_dynamic_table_offset) % U16
             IN  IF dynamic_table_entry_index < Len(t.entries)
                 THEN [ret |-> "Ok", field |-> t.entries[dynamic_table_entry_index + 1],
                       panic |-> ""]
                 ELSE [ret |-> "Err", field |-> NoField, panic |-> ""]

\* validate_index that refuses the greatest index
Table_validate_index_below(t, index) == index < Table_len(t)

\* Table::validate_index
Table_validate_index(t, index) == index <= Table_len(t)

(***************************************************************************)
(* The byte reader.                                                        *)
(***************************************************************************)
\* ReadBytesExt::read_u8 on a SliceReader: one octet, or an error at the end
read_u8(octets, off) ==
    IF off < Len(octets)
    THEN [ret |-> "Ok", octet |-> octets[off + 1], off |-> off + 1]
    ELSE [ret |-> "Err", octet |-> 0, off |-> off]

\* SliceReader::peek_u8: read_u8 followed by unread
peek_u8(octets, off) ==
    LET r == read_u8(octets, off)
    IN  IF r.ret = "Ok" THEN [r EXCEPT !.off = r.off - 1] ELSE r

\* SliceReader::consume
consume(octets, off, size) == IF off + size < Len(octets) THEN off + size ELSE Len(octets)

\* SliceReader::eos
eos(octets, off) == off = Len(octets)

\* read_slice handing out the octets that remain when there are fewer
read_slice_truncating(octets, off, size) ==
    IF off + size <= Len(octets)
    THEN [ret |-> "Ok", slice |-> SubSeq(octets, off + 1, off + size), off |-> off + size]
    ELSE [ret |-> "Ok", slice |-> SubSeq(octets, off + 1, Len(octets)), off |-> Len(octets)]

\* SliceReader::read_slice
read_slice(octets, off, size) ==
    IF off + size <= Len(octets)
    THEN [ret |-> "Ok", slice |-> SubSeq(octets, off + 1, off + size), off |-> off + size]
    ELSE [ret |-> "Err", slice |-> <<>>, off |-> off]

(***************************************************************************)
(* The integer codec.                                                      *)
(***************************************************************************)
IntResult(ret, err, prepended, value, off) ==
    [ret |-> ret, err |-> err, prepended |-> prepended, value |-> value, off |-> off]

\* The continuation loop of decode_u16.  The shift of a u16 by 16 or more
\* panics in a debug build; a release build shifts by the amount modulo 16.
\* The bits shifted out of the u16 are lost.
RECURSIVE decode_u16_loop(_, _, _, _, _)
decode_u16_loop(octets, off, prepended, value, shift) ==
    LET r == read_u8(octets, off)
    IN  IF r.ret = "Err"
        THEN IntResult("Err", "Io", prepended, value, r.off)
        ELSE IF shift >= 16 /\ build = "debug"
        THEN IntResult("panic", "overflow", prepended, value, r.off)
        ELSE LET addition == ((r.octet % 128) * (2 ^ (shift % 16))) % U16
             IN  IF value + addition >= U16
                 THEN IntResult("Err", "Failed", prepended, value, r.off)
                 ELSE IF (r.octet \div 128) % 2 = 1
                 THEN decode_u16_loop(octets, r.off, prepended, value + addition, shift + 7)
                 ELSE IntResult("Ok", "", prepended, value + addition, r.off)

\* decode_u16
decode_u16(octets, off, prefix_bits) ==
    LET max_prefix_value == (2 ^ prefix_bits) - 1
        r == read_u8(octets, off)
    IN  IF r.ret = "Err"
        THEN IntResult("Err", "Io", 0, 0, r.off)
        ELSE LET prepended_value == (r.octet \div (2 ^ prefix_bits)) % 256
                 value == r.octet % (max_prefix_value + 1)
             IN  IF value = max_prefix_value
                 THEN decode_u16_loop(octets, r.off, prepended_value, value, 0)
                 ELSE IntResult("Ok", "", prepended_value, value, r.off)

(***************************************************************************)
(* String literals.                                                        *)
(***************************************************************************)
\* The 5-bit codes of the Huffman code of RFC 7541 Appendix B, code 0 first.
HuffmanCodes5 == <<48, 49, 50, 97, 99, 101, 105, 111, 115, 116>>

\* huffman::decode on the Huffman-coded strings the model holds: the empty
\* string, and one octet holding a 5-bit code and three bits of padding.
\* An octet that holds a 5-bit code and other padding is an error.
huffman_decode(octets) ==
    IF octets = <<>>
    THEN [ret |-> "Ok", octets |-> <<>>]
    ELSE IF Len(octets) = 1 /\ octets[1] \div 8 < 10
    THEN IF octets[1] % 8 = 7
         THEN [ret |-> "Ok", octets |-> <<HuffmanCodes5[(octets[1] \div 8) + 1]>>]
         ELSE [ret |-> "Err", octets |-> <<>>]
    ELSE [ret |-> "Beyond", octets |-> <<>>]

NoString == [encoding |-> "Raw", octets |-> <<>>]

\* HpackString::decode behind the length prefix n: the octets of the string
HpackString_octets(octets, n) ==
    IF n.ret # "Ok"
    THEN [ret |-> n.ret, err |-> n.err, str |-> NoString, off |-> n.off]
    ELSE LET sl == read_slice(octets, n.off, n.value)
         IN  IF sl.ret = "Err"
             THEN [ret |-> "Err", err |-> "Failed", str |-> NoString, off |-> sl.off]
             ELSE [ret |-> "Ok", err |-> "",
                   str |-> [encoding |-> IF n.prepended = 0 THEN "Raw" ELSE "Huffman",
                            octets |-> sl.slice],
                   off |-> sl.off]

\* HpackString::decode
HpackString_decode(octets, off) == HpackString_octets(octets, decode_u16(octets, off, 7))

\* HpackString::into_raw (into_plain_bytes in decoder.rs)
into_plain_bytes(str) ==
    IF str.encoding = "Raw"
    THEN [ret |-> "Ok", octets |-> str.octets]
    ELSE huffman_decode(str.octets)

(***************************************************************************)
(* Field representations.                                                  *)
(***************************************************************************)
\* a decoded representation: kind is "Indexed", "Literal" or "Update"
Rep(kind, form, index, name, value) ==
    [kind |-> kind, form |-> form, index |-> index, name |-> name, value |-> value]

NoRep == Rep("", "", 0, NoString, NoString)

RepResult(ret, err, rep, off) == [ret |-> ret, err |-> err, rep |-> rep, off |-> off]

\* DynamicTableSizeUpdate::decode
DynamicTableSizeUpdate_decode(octets, off) == decode_u16(octets, off, 5)

\* IndexedHeaderField { index } of the integer decoded
IndexedHeaderField_of(i) ==
    RepResult(i.ret, i.err,
              IF i.ret = "Ok" THEN Rep("Indexed", "", i.value, NoString, NoString)
              ELSE NoRep,
              i.off)

\* IndexedHeaderField::decode
IndexedHeaderField_decode(octets, off) == IndexedHeaderField_of(decode_u16(octets, off, 7))

\* The name of a literal: a string literal behind the first octet when the
\* index bits of the first octet are all clear, else an index.
\* index = 0 in the result says that the name is the string.
FieldName_Name(n) ==
    [ret |-> n.ret, err |-> n.err, index |-> 0, name |-> n.str, off |-> n.off]

FieldName_Index(i) ==
    [ret |-> i.ret, err |-> i.err, index |-> i.value, name |-> NoString, off |-> i.off]

FieldName_decode(octets, off, first_octet, prefix_bits) ==
    IF first_octet % (2 ^ prefix_bits) = 0
    THEN FieldName_Name(HpackString_decode(octets, consume(octets, off, 1)))
    ELSE FieldName_Index(decode_u16(octets, off, prefix_bits))

\* LiteralHeaderField::decode_name_and_form: the form and the prefix width
LiteralForm(first_octet) ==
    IF first_octet \div 64 = 1 THEN [form |-> "WithIndexing", prefix_bits |-> 6]
    ELSE IF first_octet = 16 THEN [form |-> "NeverIndexed", prefix_bits |-> 4]
    ELSE [form |-> "WithoutIndexing", prefix_bits |-> 4]

\* LiteralHeaderField { name, value, form } of the name n and the value v
LiteralHeaderField_of(form, n, v) ==
    IF v.ret # "Ok"
    THEN RepResult(v.ret, v.err, NoRep, v.off)
    ELSE RepResult("Ok", "", Rep("Literal", form, n.index, n.name, v.str), v.off)

\* LiteralHeaderField::decode behind the name n: the value
LiteralHeaderField_value(octets, form, n) ==
    IF n.ret # "Ok"
    THEN RepResult(n.ret, n.err, NoRep, n.off)
    ELSE LiteralHeaderField_of(form, n, HpackString_decode(octets, n.off))

\* LiteralHeaderField::decode
LiteralHeaderField_decode(octets, off, first_octet) ==
    LiteralHeaderField_value(
        octets, LiteralForm(first_octet).form,
        FieldName_decode(octets, off, first_octet, LiteralForm(first_octet).prefix_bits))

\* the first octet of a dynamic table size update: 001xxxxx
IsSizeUpdate(octet) == octet \div 32 = 1

\* a decoder of representations that takes a size update behind the leading
\* ones for a literal
RawHeaderField_decode_lenient(octets, off) ==
    LET p == peek_u8(octets, off)
    IN  IF p.ret = "Err"
        THEN RepResult("Err", "Io", NoRep, p.off)
        ELSE IF p.octet \div 128 = 1
        THEN IndexedHeaderField_decode(octets, off)
        ELSE LiteralHeaderField_decode(octets, off, p.octet)

\* RawHeaderField::decode: an indexed field for 1xxxxxxx, a literal otherwise;
\* a size update behind the leading ones is refused
RawHeaderField_decode(octets, off) ==
    LET p == peek_u8(octets, off)
    IN  IF p.ret = "Err"
        THEN RepResult("Err", "Io", NoRep, p.off)
        ELSE IF p.octet \div 128 = 1
        THEN IndexedHeaderField_decode(octets, off)
        ELSE IF IsSizeUpdate(p.octet)
        THEN RepResult("Err", "InvalidInput", NoRep, p.off)
        ELSE LiteralHeaderField_decode(octets, off, p.octet)

(***************************************************************************)
(* What an operation was given and what it returned.                       *)
(***************************************************************************)
NoLast ==
    [op |-> "new", ret |-> "Ok", err |-> "", name |-> <<>>, value |-> <<>>,
     arg |-> 0, evicted |-> 0, rep |-> "", form |-> ""]

(***************************************************************************)
(* The dynamic table driven directly.                                      *)
(***************************************************************************)
InitCommon ==
    /\ last = NoLast
    /\ block = <<>>
    /\ offset = 0
    /\ build \in {"debug", "release"}
    /\ panicked = ""
    /\ updates = <<>>
    /\ sink = <<>>

\* phase and ephase are "off" where no Decoder, no Encoder is constructed
InitTable ==
    /\ InitCommon
    /\ phase = "off"
    /\ ephase = "off"
    /\ \E m \in Limits : table = DynamicTable_new(m)
    /\ etable = DynamicTable_new(0)

\* the number of entries an operation removed, the inserted one not counted
Evicted(before, after, inserted) ==
    Len(before.entries) + (IF inserted THEN 1 ELSE 0) - Len(after.entries)

Push(name, value) ==
    /\ panicked = ""
    /\ LET r == DynamicTable_push(table, name, value)
       IN  /\ table' = r.t
           /\ panicked' = r.panic
           /\ last' = [NoLast EXCEPT !.op = "push", !.ret = r.ret,
                           !.name = name, !.value = value,
                           !.evicted = Evicted(table, r.t, r.ret = "None")]
    /\ UNCHANGED <<decoderVars, encoderVars, build>>

SetSizeSoftLimit(max_size) ==
    /\ panicked = ""
    /\ LET r == DynamicTable_set_size_soft_limit(table, max_size)
       IN  /\ table' = r.t
           /\ panicked' = r.panic
           /\ last' = [NoLast EXCEPT !.op = "set_size_soft_limit", !.ret = r.ret,
                           !.err = IF r.ret = "Err" THEN "Failed" ELSE "",
                           !.arg = max_size,
                           !.evicted = Evicted(table, r.t, FALSE)]
    /\ UNCHANGED <<decoderVars, encoderVars, build>>

SetSizeHardLimit(max_size) ==
    /\ panicked = ""
    /\ LET r == DynamicTable_set_size_hard_limit(table, max_size)
       IN  /\ table' = r.t
           /\ panicked' = r.panic
           /\ last' = [NoLast EXCEPT !.op = "set_size_hard_limit", !.ret = r.ret,
                           !.arg = max_size,
                           !.evicted = Evicted(table, r.t, FALSE)]
    /\ UNCHANGED <<decoderVars, encoderVars, build>>

NextTable ==
    \/ \E name \in Names, value \in Values : Push(name, value)
    \/ \E s \in Limits : SetSizeSoftLimit(s)
    \/ \E h \in Limits : SetSizeHardLimit(h)

SpecTable == InitTable /\ [][NextTable]_vars

(***************************************************************************)
(* The decoder.                                                            *)
(***************************************************************************)
FieldResult(ret, err, field, t, panic) ==
    [ret |-> ret, err |-> err, field |-> field, t |-> t, panic |-> panic]

\* the Result<HeaderField> of the entry that Table::get found
indexed_field(t, g) ==
    FieldResult(IF g.ret = "Ok" THEN "Some" ELSE g.ret,
                IF g.ret = "Err" THEN "Failed" ELSE "", g.field, t, g.panic)

\* HeaderBlockDecoder::handle_indexed_field
handle_indexed_field(t, rep) == indexed_field(t, Table_get(t, rep.index))

\* the name of the entry that Table::get found
name_of_entry(g) ==
    [ret |-> g.ret, err |-> IF g.ret = "Err" THEN "Failed" ELSE "",
     octets |-> g.field.name, panic |-> g.panic]

\* the plain octets of a string literal
plain_octets(n) ==
    [ret |-> n.ret, err |-> IF n.ret = "Err" THEN "Failed" ELSE "",
     octets |-> n.octets, panic |-> ""]

\* the name of a literal as octets: the name of the entry at the index, or
\* the plain octets of the string literal
resolve_name(t, rep) ==
    IF rep.index # 0
    THEN name_of_entry(Table_get(t, rep.index))
    ELSE plain_octets(into_plain_bytes(rep.name))

\* handle_literal_field after the push r of the field: the candidate when it
\* was handed back, else the entry at the front of the table
pushed_field(field, r) ==
    IF r.ret = "Some"
    THEN FieldResult("Some", "", field, r.t, "")
    ELSE IF r.ret = "None"
    THEN FieldResult("Some", "", r.t.entries[1], r.t, "")
    ELSE FieldResult("panic", "", NoField, r.t, r.panic)

\* literal_field pushing the literals without indexing as well
literal_field_indexing_all(t, form, n, v) ==
    IF n.ret # "Ok"
    THEN FieldResult(n.ret, n.err, NoField, t, n.panic)
    ELSE IF v.ret # "Ok"
    THEN FieldResult(v.ret, v.err, NoField, t, "")
    ELSE IF form # "NeverIndexed"
    THEN pushed_field(HeaderField_from_cow(n.octets, v.octets),
                      DynamicTable_push(t, n.octets, v.octets))
    ELSE FieldResult("Some", "", HeaderField_from_cow(n.octets, v.octets), t, "")

\* literal_field pushing the name before the value is made plain
literal_field_name_pushed_first(t, form, n, v) ==
    IF n.ret # "Ok"
    THEN FieldResult(n.ret, n.err, NoField, t, n.panic)
    ELSE IF v.ret # "Ok"
    THEN FieldResult(v.ret, v.err, NoField,
                     IF form = "WithIndexing"
                     THEN DynamicTable_push(t, n.octets, <<>>).t ELSE t, "")
    ELSE IF form = "WithIndexing"
    THEN pushed_field(HeaderField_from_cow(n.octets, v.octets),
                      DynamicTable_push(t, n.octets, v.octets))
    ELSE FieldResult("Some", "", HeaderField_from_cow(n.octets, v.octets), t, "")

\* handle_literal_field with the name n and the value v as plain octets
literal_field(t, form, n, v) ==
    IF n.ret # "Ok"
    THEN FieldResult(n.ret, n.err, NoField, t, n.panic)
    ELSE IF v.ret # "Ok"
    THEN FieldResult(v.ret, v.err, NoField, t, "")
    ELSE IF form = "WithIndexing"
    THEN pushed_field(HeaderField_from_cow(n.octets, v.octets),
                      DynamicTable_push(t, n.octets, v.octets))
    ELSE FieldResult("Some", "", HeaderField_from_cow(n.octets, v.octets), t, "")

\* the name of a literal read in the table t2 that the eviction for the new
\* entry leaves: no octets when the entry of the index is gone
name_after_eviction(t, t2, rep) ==
    IF rep.index >= Index_dynamic_table_offset /\ Table_get(t, rep.index).ret = "Ok"
         /\ Table_get(t2, rep.index).ret # "Ok"
    THEN [ret |-> "Ok", err |-> "", octets |-> <<>>, panic |-> ""]
    ELSE resolve_name(t, rep)

\* handle_literal_field reading the name after the eviction for the new entry
handle_literal_field_name_resolved_late(t, rep) ==
    literal_field(t, rep.form,
                  name_after_eviction(t,
                      evict_exceeded_entries(
                          [t EXCEPT !.size_soft_limit =
                               IF @ < Len(rep.value.octets) + 32
                               THEN Len(rep.value.octets) + 32 ELSE @],
                          Len(rep.value.octets) + 32).t, rep),
                  plain_octets(into_plain_bytes(rep.value)))

\* HeaderBlockDecoder::handle_literal_field
handle_literal_field(t, rep) ==
    literal_field(t, rep.form, resolve_name(t, rep),
                  plain_octets(into_plain_bytes(rep.value)))

\* decode_raw_field that hands out the field and leaves it in the reader
decode_raw_field_unread(octets, off) ==
    IF eos(octets, off)
    THEN RepResult("None", "", NoRep, off)
    ELSE [RawHeaderField_decode(octets, off) EXCEPT !.off = off]

\* HeaderBlockDecoder::decode_raw_field: no field at the end of the block
decode_raw_field(octets, off) ==
    IF eos(octets, off)
    THEN RepResult("None", "", NoRep, off)
    ELSE RawHeaderField_decode(octets, off)

\* decode_field on the result raw of decode_raw_field
handle_raw_field(t, raw) ==
    IF raw.ret = "None"
    THEN [res |-> FieldResult("None", "", NoField, t, ""), rep |-> NoRep, off |-> raw.off]
    ELSE IF raw.ret = "Err"
    THEN [res |-> FieldResult("Err", raw.err, NoField, t, ""), rep |-> NoRep, off |-> raw.off]
    ELSE IF raw.ret = "panic"
    THEN [res |-> FieldResult("panic", "", NoField, t, raw.err), rep |-> NoRep, off |-> raw.off]
    ELSE [res |-> IF raw.rep.kind = "Indexed"
                  THEN handle_indexed_field(t, raw.rep)
                  ELSE handle_literal_field(t, raw.rep),
          rep |-> raw.rep, off |-> raw.off]

\* HeaderBlockDecoder::decode_field
decode_field(t, octets, off) == handle_raw_field(t, decode_raw_field(octets, off))

\* the test of the loop of Decoder::enter_header_block on the octet peeked
is_leading_update(octet) == (octet \div 32) % 2 # 0

\* The loop of Decoder::enter_header_block: the size updates at the start of
\* the block are applied to the soft limit one after the other.
RECURSIVE enter_header_block(_, _, _)
enter_header_block(t, octets, off) ==
    LET p == peek_u8(octets, off)
    IN  IF p.ret = "Err"
        THEN [ret |-> "Err", err |-> "Io", t |-> t, off |-> off, panic |-> ""]
        ELSE IF is_leading_update(p.octet)
        THEN LET update == DynamicTableSizeUpdate_decode(octets, off)
             IN  IF update.ret = "Err"
                 THEN [ret |-> "Err", err |-> update.err, t |-> t, off |-> update.off,
                       panic |-> ""]
                 ELSE IF update.ret = "panic"
                 THEN [ret |-> "panic", err |-> "", t |-> t, off |-> update.off,
                       panic |-> update.err]
                 ELSE LET r == DynamicTable_set_size_soft_limit(t, update.value)
                      IN  IF r.ret = "Err"
                          THEN [ret |-> "Err", err |-> "Failed", t |-> r.t,
                                off |-> update.off, panic |-> ""]
                          ELSE IF r.ret = "panic"
                          THEN [ret |-> "panic", err |-> "", t |-> r.t,
                                off |-> update.off, panic |-> r.panic]
                          ELSE enter_header_block(r.t, octets, update.off)
        ELSE [ret |-> "Ok", err |-> "", t |-> t, off |-> off, panic |-> ""]

\* The pieces header blocks are put together from: size updates, indexed
\* fields, literals of the three forms, and a cut literal.
Items ==
    { <<32>>,               \* 20: size update to 0
      <<63, 9>>,            \* 3f 09: size update to 40
      <<63, 90>>,           \* 3f 5a: size update to 121, above every hard limit
      <<144>>,              \* 90: indexed, index 16
      <<128>>,              \* 80: indexed, index 0
      <<190>>,              \* be: indexed, index 62
      <<64, 0, 0>>,         \* 40 00 00: with indexing, name "", value ""
      <<65, 0>>,            \* 41 00: with indexing, name of index 1, value ""
      <<126, 1, 97>>,       \* 7e 01 61: with indexing, name of index 62, value "a"
      <<4, 1, 97>>,         \* 04 01 61: without indexing, name of index 4, value "a"
      <<16, 0, 0>>,         \* 10 00 00: never indexed, name "", value ""
      <<64, 1>> }           \* 40 01: with indexing, cut after the name length

\* the blocks of at most MaxBlockLen octets made of at most n pieces
RECURSIVE BlocksOf(_)
BlocksOf(n) ==
    IF n = 0 THEN {<<>>}
    ELSE LET shorter == BlocksOf(n - 1)
         IN  shorter \cup {b \in {a \o i : a \in shorter, i \in Items} :
                              Len(b) <= MaxBlockLen}

Blocks == BlocksOf(MaxBlockLen)

\* the sizes Decoder::new, Encoder::new and
\* Decoder::set_dynamic_table_size_hard_limit are given
CodecLimits == {40, 80}

InitDecoder ==
    /\ InitCommon
    /\ phase = "idle"
    /\ ephase = "off"
    /\ \E m \in CodecLimits : table = DynamicTable_new(m)
    /\ etable = DynamicTable_new(0)

\* set_dynamic_table_size_hard_limit with the test the other way round
Decoder_set_dynamic_table_size_hard_limit_reversed(t, max_size) ==
    IF ~(max_size <= t.size_soft_limit)
    THEN [t |-> t, ret |-> "Err", panic |-> ""]
    ELSE DynamicTable_set_size_hard_limit(t, max_size)

\* Decoder::set_dynamic_table_size_hard_limit
Decoder_set_dynamic_table_size_hard_limit(t, max_size) ==
    IF ~(t.size_soft_limit <= max_size)
    THEN [t |-> t, ret |-> "Err", panic |-> ""]
    ELSE DynamicTable_set_size_hard_limit(t, max_size)

\* the state after a set_dynamic_table_size_hard_limit that returned r
DecoderLimitSet(max_size, r) ==
    /\ table' = r.t
    /\ panicked' = r.panic
    /\ last' = [NoLast EXCEPT !.op = "set_dynamic_table_size_hard_limit",
                    !.ret = r.ret,
                    !.err = IF r.ret = "Err" THEN "Failed" ELSE "",
                    !.arg = max_size,
                    !.evicted = Evicted(table, r.t, FALSE)]

\* Decoder::set_dynamic_table_size_hard_limit
DecoderSetHardLimit(max_size) ==
    /\ panicked = ""
    /\ phase = "idle"
    /\ DecoderLimitSet(max_size, Decoder_set_dynamic_table_size_hard_limit(table, max_size))
    /\ UNCHANGED <<decoderVars, encoderVars, build>>

\* Decoder::enter_header_block
EnterHeaderBlock(b) ==
    /\ panicked = ""
    /\ phase = "idle"
    /\ LET r == enter_header_block(table, b, 0)
       IN  /\ table' = r.t
           /\ panicked' = r.panic
           /\ block' = b
           /\ offset' = r.off
           /\ phase' = IF r.ret = "Ok" THEN "block" ELSE "failed"
           /\ last' = [NoLast EXCEPT !.op = "enter_header_block", !.ret = r.ret,
                           !.err = r.err]
    /\ UNCHANGED <<encoderVars, build>>

\* the state after a decode_field that returned r
DecodeFieldReturns(r) ==
    /\ table' = r.res.t
    /\ panicked' = r.res.panic
    /\ offset' = r.off
    /\ last' = [NoLast EXCEPT !.op = "decode_field", !.ret = r.res.ret,
                    !.err = r.res.err,
                    !.name = r.res.field.name, !.value = r.res.field.value,
                    !.arg = r.rep.index,
                    !.evicted = Evicted(table, r.res.t,
                                        Len(r.res.t.entries) > 0
                                          /\ r.rep.form = "WithIndexing"
                                          /\ r.res.ret = "Some"),
                    !.rep = r.rep.kind, !.form = r.rep.form]

\* HeaderBlockDecoder::decode_field
DecodeField ==
    /\ panicked = ""
    /\ phase = "block"
    /\ DecodeFieldReturns(decode_field(table, block, offset))
    /\ UNCHANGED <<block, phase, encoderVars, build>>

\* The caller lets go of the block: the HeaderBlockDecoder, if there is one,
\* is dropped, and the decoder is free for the next block.
DropHeaderBlock ==
    /\ panicked = ""
    /\ phase \in {"block", "failed"}
    /\ phase' = "idle"
    /\ block' = <<>>
    /\ offset' = 0
    /\ last' = [NoLast EXCEPT !.op = "drop"]
    /\ UNCHANGED <<table, panicked, encoderVars, build>>

NextDecoder ==
    \/ \E h \in CodecLimits : DecoderSetHardLimit(h)
    \/ \E b \in Blocks : EnterHeaderBlock(b)
    \/ DecodeField
    \/ DropHeaderBlock

SpecDecoder == InitDecoder /\ [][NextDecoder]_vars

\* the Huffman-coded strings of the blocks are inside the part of the code
\* that huffman_decode holds
HuffmanWithinTable == last.ret # "Beyond"

(***************************************************************************)
(* Writing integers, strings and representations.                          *)
(***************************************************************************)
\* the continuation octets of encode_u16: 7 bits each, least significant
\* first, the high bit set on all but the last
RECURSIVE encode_u16_loop(_)
encode_u16_loop(value) ==
    IF value >= 128
    THEN <<(value % 128) + 128>> \o encode_u16_loop(value \div 128)
    ELSE <<value>>

\* The shift prepended_value << prefix_bits of the second branch of
\* encode_u16 is a shift of a u8: by 8 bits it panics in a debug build, and a
\* release build shifts by the amount modulo 8.
encode_u16_overflows(prefix_bits, value) ==
    build = "debug" /\ prefix_bits >= 8 /\ value >= 2 ^ prefix_bits - 1

\* literal::encode_u16 where it does not panic: the octets written.
\* prepended_value has no bit above 8 - prefix_bits, so that the bits of the
\* two operands of | are apart and | is +.
encode_u16(prepended_value, prefix_bits, value) ==
    LET max_prefix_value == 2 ^ prefix_bits - 1
    IN  IF value < max_prefix_value
        THEN <<(prepended_value * 2 ^ prefix_bits + value) % 256>>
        ELSE <<((prepended_value * 2 ^ (prefix_bits % 8)) % 256) + (max_prefix_value % 256)>>
                 \o encode_u16_loop(value - max_prefix_value)

\* DynamicTableSizeUpdate::encode
DynamicTableSizeUpdate_encode(max_size) == encode_u16(1, 5, max_size)

\* IndexedHeaderField::encode
IndexedHeaderField_encode(index) == encode_u16(1, 7, index)

\* HpackString::encode
HpackString_encode(str) ==
    encode_u16(IF str.encoding = "Raw" THEN 0 ELSE 1, 7, Len(str.octets)) \o str.octets

\* LiteralHeaderField::encode_name
LiteralHeaderField_encode_name(rep) ==
    LET pattern == IF rep.form = "WithIndexing" THEN 1
                   ELSE IF rep.form = "NeverIndexed" THEN 1 ELSE 0
        prefix_bits == IF rep.form = "WithIndexing" THEN 6 ELSE 4
    IN  IF rep.index # 0
        THEN encode_u16(pattern, prefix_bits, rep.index)
        ELSE <<pattern * 2 ^ prefix_bits>> \o HpackString_encode(rep.name)

\* LiteralHeaderField::encode
LiteralHeaderField_encode(rep) ==
    LiteralHeaderField_encode_name(rep) \o HpackString_encode(rep.value)

\* HeaderField::encode of an indexed field or a literal
RawHeaderField_encode(rep) ==
    IF rep.kind = "Indexed"
    THEN IndexedHeaderField_encode(rep.index)
    ELSE LiteralHeaderField_encode(rep)

(***************************************************************************)
(* The encoder.  The sink is a Vec<u8>, which takes every write.           *)
(***************************************************************************)
\* the size updates a block may be behind, and the octets a block may hold
\* before the caller finishes it
MaxUpdates == 2
MaxSinkLen == 3

\* queue_update queueing the new soft limit in place of the old one
queue_update_new(old, upd, r) ==
    [t |-> r.t, ret |-> r.ret, panic |-> r.panic,
     updates |-> IF r.ret = "Ok" /\ old # r.t.size_soft_limit
                 THEN Append(upd, r.t.size_soft_limit) ELSE upd]

\* Encoder::set_dynamic_table_size_hard_limit and
\* Encoder::set_dynamic_table_size_soft_limit after the table took the limit:
\* the old soft limit is queued when the soft limit changed
queue_update(old, upd, r) ==
    [t |-> r.t, ret |-> r.ret, panic |-> r.panic,
     updates |-> IF r.ret = "Ok" /\ old # r.t.size_soft_limit
                 THEN Append(upd, old) ELSE upd]

\* Encoder::set_dynamic_table_size_hard_limit
Encoder_set_dynamic_table_size_hard_limit(t, upd, max_size) ==
    queue_update(t.size_soft_limit, upd, DynamicTable_set_size_hard_limit(t, max_size))

\* Encoder::set_dynamic_table_size_soft_limit
Encoder_set_dynamic_table_size_soft_limit(t, upd, max_size) ==
    queue_update(t.size_soft_limit, upd, DynamicTable_set_size_soft_limit(t, max_size))

\* drain_updates writing the youngest update first
RECURSIVE drain_updates_reversed(_)
drain_updates_reversed(upd) ==
    IF upd = <<>> THEN <<>>
    ELSE drain_updates_reversed(Tail(upd)) \o DynamicTableSizeUpdate_encode(Head(upd))

\* Encoder::enter_header_block: the queued size updates, drained in order
RECURSIVE drain_updates(_)
drain_updates(upd) ==
    IF upd = <<>> THEN <<>>
    ELSE DynamicTableSizeUpdate_encode(Head(upd)) \o drain_updates(Tail(upd))

\* the Result<()> of encode_field with the table and the octets written
EncodeResult(ret, err, t, written, panic) ==
    [ret |-> ret, err |-> err, t |-> t, written |-> written, panic |-> panic]

\* encode_field from the push on: the octets of the field are written when
\* the push came back
encode_after_push(rep, r) ==
    IF r.ret = "panic"
    THEN EncodeResult("panic", "", r.t, <<>>, r.panic)
    ELSE EncodeResult("Ok", "", r.t, RawHeaderField_encode(rep), "")

\* encode_field of a literal with indexing: the name n and the value v as
\* plain octets make the entry that is pushed
encode_with_indexing(t, rep, n, v) ==
    IF n.ret # "Ok"
    THEN EncodeResult(n.ret, n.err, t, <<>>, n.panic)
    ELSE IF v.ret # "Ok"
    THEN EncodeResult(v.ret, v.err, t, <<>>, "")
    ELSE encode_after_push(rep, DynamicTable_push(t, n.octets, v.octets))

\* encode_field without the validation of the index
encode_field_unvalidated(t, rep) ==
    IF rep.kind = "Literal" /\ rep.form = "WithIndexing"
    THEN encode_with_indexing(t, rep, resolve_name(t, rep),
                              plain_octets(into_plain_bytes(rep.value)))
    ELSE EncodeResult("Ok", "", t, RawHeaderField_encode(rep), "")

\* HeaderBlockEncoder::encode_field
encode_field(t, rep) ==
    IF rep.index # 0 /\ ~Table_validate_index(t, rep.index)
    THEN EncodeResult("Err", "Failed", t, <<>>, "")
    ELSE IF rep.kind = "Literal" /\ rep.form = "WithIndexing"
    THEN encode_with_indexing(t, rep, resolve_name(t, rep),
                              plain_octets(into_plain_bytes(rep.value)))
    ELSE EncodeResult("Ok", "", t, RawHeaderField_encode(rep), "")

\* a string literal sent as it is
RawString(octets) == [encoding |-> "Raw", octets |-> octets]

\* the fields the caller hands to encode_field: indexed fields of the static
\* table, of the dynamic table and beyond, and literals of the three forms
\* with either kind of name
EncoderFields ==
    {Rep("Indexed", "", i, NoString, NoString) : i \in {2, 62, 63}}
    \cup {Rep("Literal", "WithIndexing", 1, NoString, RawString(<<>>)),
          Rep("Literal", "WithIndexing", 0, RawString(<<>>), RawString(<<>>)),
          Rep("Literal", "WithIndexing", 62, NoString, RawString(<<98>>)),
          Rep("Literal", "WithoutIndexing", 0, RawString(<<97>>), RawString(<<>>)),
          Rep("Literal", "WithoutIndexing", 63, NoString, RawString(<<>>)),
          Rep("Literal", "NeverIndexed", 62, NoString, RawString(<<>>))}

InitEncoder ==
    /\ InitCommon
    /\ phase = "off"
    /\ ephase = "idle"
    /\ table = DynamicTable_new(0)
    /\ \E m \in CodecLimits : etable = DynamicTable_new(m)

\* the state after a limit setter of the encoder returned r
EncoderLimitSet(op, max_size, r) ==
    /\ etable' = r.t
    /\ updates' = r.updates
    /\ panicked' = r.panic
    /\ last' = [NoLast EXCEPT !.op = op, !.ret = r.ret,
                    !.err = IF r.ret = "Err" THEN "Failed" ELSE "",
                    !.arg = max_size,
                    !.evicted = Evicted(etable, r.t, FALSE)]

\* Encoder::set_dynamic_table_size_hard_limit
EncoderSetHardLimit(max_size) ==
    /\ panicked = ""
    /\ ephase = "idle"
    /\ Len(updates) < MaxUpdates
    /\ EncoderLimitSet("set_dynamic_table_size_hard_limit", max_size,
                       Encoder_set_dynamic_table_size_hard_limit(etable, updates, max_size))
    /\ UNCHANGED <<table, decoderVars, sink, ephase, build>>

\* Encoder::set_dynamic_table_size_soft_limit
EncoderSetSoftLimit(max_size) ==
    /\ panicked = ""
    /\ ephase = "idle"
    /\ Len(updates) < MaxUpdates
    /\ EncoderLimitSet("set_dynamic_table_size_soft_limit", max_size,
                       Encoder_set_dynamic_table_size_soft_limit(etable, updates, max_size))
    /\ UNCHANGED <<table, decoderVars, sink, ephase, build>>

\* Encoder::enter_header_block
EncoderEnterHeaderBlock ==
    /\ panicked = ""
    /\ ephase = "idle"
    /\ ephase' = "block"
    /\ sink' = drain_updates(updates)
    /\ updates' = <<>>
    /\ last' = [NoLast EXCEPT !.op = "encoder_enter_header_block"]
    /\ UNCHANGED <<table, decoderVars, etable, panicked, build>>

\* the state after an encode_field of rep that returned r
EncodeFieldReturns(rep, r) ==
    /\ etable' = r.t
    /\ panicked' = r.panic
    /\ sink' = sink \o r.written
    /\ last' = [NoLast EXCEPT !.op = "encode_field", !.ret = r.ret, !.err = r.err,
                    !.name = rep.name.octets, !.value = rep.value.octets,
                    !.arg = rep.index,
                    !.evicted = Evicted(etable, r.t,
                                        Len(r.t.entries) > 0
                                          /\ rep.form = "WithIndexing"
                                          /\ r.ret = "Ok"),
                    !.rep = rep.kind, !.form = rep.form]

\* HeaderBlockEncoder::encode_field
EncodeField(rep) ==
    /\ panicked = ""
    /\ ephase = "block"
    /\ Len(sink) < MaxSinkLen
    /\ EncodeFieldReturns(rep, encode_field(etable, rep))
    /\ UNCHANGED <<table, decoderVars, updates, ephase, build>>

\* HeaderBlockEncoder::finish: the caller takes the block
Finish ==
    /\ panicked = ""
    /\ ephase = "block"
    /\ ephase' = "idle"
    /\ sink' = <<>>
    /\ last' = [NoLast EXCEPT !.op = "finish"]
    /\ UNCHANGED <<table, decoderVars, etable, updates, panicked, build>>

NextEncoder ==
    \/ \E h \in Limits : EncoderSetHardLimit(h)
    \/ \E s \in Limits : EncoderSetSoftLimit(s)
    \/ EncoderEnterHeaderBlock
    \/ \E rep \in EncoderFields : EncodeField(rep)
    \/ Finish

SpecEncoder == InitEncoder /\ [][NextEncoder]_vars

(***************************************************************************)
(* A decoder or an encoder: whichever Init constructed is driven.          *)
(***************************************************************************)
InitCodec == InitDecoder \/ InitEncoder

NextCodec == NextDecoder \/ NextEncoder

SpecCodec == InitCodec /\ [][NextCodec]_vars

(***************************************************************************)
(* Properties of the dynamic table driven directly (SpecTable).            *)
(***************************************************************************)
\* the field the last operation was given
LastField == HeaderField_from_cow(last.name, last.value)

\* C1: after any sequence of push, set_size_soft_limit and set_size_hard_limit
\* the size field is the sum of the entry sizes of the entries held.
C1_SizeIsSumOfEntrySizes == table.size = SumEntrySizes(table.entries)

\* C2: 0 <= size <= size_soft_limit <= size_hard_limit <= 65535 in every
\* state, and a new table has size 0 and both limits equal to m.
C2_SizeWithinLimits ==
    /\ 0 <= table.size
    /\ table.size <= table.size_soft_limit
    /\ table.size_soft_limit <= table.size_hard_limit
    /\ table.size_hard_limit <= 65535
    /\ last.op = "new" =>
          /\ table.size = 0
          /\ table.size_soft_limit = table.size_hard_limit

\* C3: a push whose entry size exceeds the soft limit leaves no entries and
\* size 0, inserts nothing and hands the candidate back.
C3_OversizePushClears ==
    (last.op = "push" /\ entry_size(LastField) > table.size_soft_limit) =>
        /\ table.entries = <<>>
        /\ table.size = 0
        /\ last.ret = "Some"

\* the entries without the k oldest ones
WithoutOldest(entries, k) == SubSeq(entries, 1, Len(entries) - k)

\* C4: every operation removes the k oldest entries for some k and keeps the
\* others in their order, below the entry it may have inserted at the front.
C4_EvictionOldestFirst ==
    [][\E k \in 0..Len(table.entries) :
          \/ table'.entries = WithoutOldest(table.entries, k)
          \/ /\ last'.op = "push"
             /\ last'.ret = "None"
             /\ table'.entries =
                    <<HeaderField_from_cow(last'.name, last'.value)>>
                        \o WithoutOldest(table.entries, k)]_vars

\* a push has evicted the oldest entry and two older entries survived it
C4_Witness ==
    /\ last.op = "push"
    /\ last.ret = "None"
    /\ last.evicted >= 1
    /\ Len(table.entries) >= 3

\* C5: after a push that inserts, index 62 is the pushed field, len is 61 plus
\* the number of dynamic entries, and a surviving entry moved from i to i + 1.
C5_PushShiftsIndices ==
    [][(last'.op = "push" /\ last'.ret = "None") =>
          /\ Table_get(table', 62) =
                [ret |-> "Ok",
                 field |-> HeaderField_from_cow(last'.name, last'.value),
                 panic |-> ""]
          /\ Table_len(table') = 61 + Len(table'.entries)
          /\ \A i \in 62..(61 + Len(table.entries)) :
                (i + 1 <= Table_len(table')) =>
                    Table_get(table', i + 1) = Table_get(table, i)]_vars

\* a push inserted a field above two entries that were there before
C5_Witness ==
    /\ last.op = "push"
    /\ last.ret = "None"
    /\ Len(table.entries) >= 3
    /\ table.entries[1] = LastField
    /\ table.entries[2] # LastField

(***************************************************************************)
(* Properties of the decoder (SpecDecoder).                                *)
(***************************************************************************)
\* The leading size updates of a block as a run of representations whose
\* first octet is 001xxxxx, applied to the soft limit in wire order; the run
\* ends at the first octet of another kind or at the end of the block.
RECURSIVE LeadingSizeUpdates(_, _, _)
LeadingSizeUpdates(t, octets, off) ==
    IF off < Len(octets) /\ octets[off + 1] \div 32 = 1
    THEN LET update == decode_u16(octets, off, 5)
         IN  IF update.ret # "Ok" \/ update.value > t.size_hard_limit
             THEN [ret |-> "Err", t |-> t, off |-> off]
             ELSE LeadingSizeUpdates(
                      DynamicTable_set_size_soft_limit(t, update.value).t,
                      octets, update.off)
    ELSE [ret |-> "Ok", t |-> t, off |-> off]

\* C6: enter_header_block takes as size updates exactly the leading run of
\* representations 001xxxxx, applies them in wire order, and leaves the first
\* octet of another kind unconsumed and the table as the run left it.
C6_LeadingSizeUpdatesOnly ==
    [][last'.op = "enter_header_block" =>
          LET run == LeadingSizeUpdates(table, block', 0)
          IN  (run.ret = "Ok" /\ run.off < Len(block') /\ panicked' = "") =>
                  /\ last'.ret = "Ok"
                  /\ offset' = run.off
                  /\ table' = run.t]_vars

RECURSIVE OnlySizeUpdates(_, _, _)
OnlySizeUpdates(octets, off, hard_limit) ==
    \/ off = Len(octets)
    \/ /\ off < Len(octets)
       /\ octets[off + 1] \div 32 = 1
       /\ LET update == decode_u16(octets, off, 5)
          IN  /\ update.ret = "Ok"
              /\ update.value <= hard_limit
              /\ OnlySizeUpdates(octets, update.off, hard_limit)

\* C8: enter_header_block succeeds on a block without field representations,
\* and decode_field at the end of the block returns no field on every call
\* and leaves the table alone.
C8_BlockWithoutFields ==
    /\ [](last.op = "enter_header_block"
             /\ OnlySizeUpdates(block, 0, table.size_hard_limit)
             /\ panicked = ""
          => last.ret = "Ok")
    /\ [][(phase = "block" /\ last'.op = "decode_field" /\ eos(block, offset)) =>
             /\ last'.ret = "None"
             /\ table' = table
             /\ offset' = offset]_vars


\* C10: decode_field on a literal with incremental indexing that fits the
\* soft limit inserts the one entry (resolved name, decoded value) at the
\* front and returns it; when it does not fit, decode_field returns the
\* candidate and the table holds no entries.
C10_LiteralWithIndexing ==
    [][(phase = "block" /\ last'.op = "decode_field") =>
          LET raw == decode_raw_field(block, offset)
              n == resolve_name(table, raw.rep)
              v == into_plain_bytes(raw.rep.value)
              f == HeaderField_from_cow(n.octets, v.octets)
          IN  (raw.ret = "Ok" /\ raw.rep.kind = "Literal"
                  /\ raw.rep.form = "WithIndexing"
                  /\ n.ret = "Ok" /\ v.ret = "Ok") =>
                  /\ last'.ret = "Some"
                  /\ HeaderField_from_cow(last'.name, last'.value) = f
                  /\ IF entry_size(f) <= table.size_soft_limit
                     THEN /\ table'.entries # <<>>
                          /\ Head(table'.entries) = f
                          /\ \E k \in 0..Len(table.entries) :
                                Tail(table'.entries) = WithoutOldest(table.entries, k)
                     ELSE table'.entries = <<>>]_vars

(***************************************************************************)
(* Properties of a decoder or an encoder (SpecCodec).                      *)
(***************************************************************************)
\* the representation the last decode_field or encode_field handled is an
\* indexed field, a literal without indexing or a literal never indexed
NotIndexing(l) ==
    \/ l.rep = "Indexed"
    \/ l.rep = "Literal" /\ l.form \in {"WithoutIndexing", "NeverIndexed"}

C9_EncoderReached ==
    /\ last.op = "encode_field"
    /\ last.rep = "Indexed"
    /\ last.ret = "Ok"
    /\ etable.entries # <<>>

(***************************************************************************)
(* The table read by index (SpecTableGet).                                 *)
(***************************************************************************)
\* The ErrorKind of an error raised as trackable's Failed: the conversion is
\* not part of the sources at hand, the kind is the one the specification
\* gives these failures.
ErrorKind_of(err) == IF err = "Failed" THEN "InvalidInput" ELSE err

\* the indices Table::get is given: Index(0) is what IndexedHeaderField::decode
\* builds of the octet 0x80, the others cover the static table, the dynamic
\* entries a table of MaxLimit can hold, and beyond
Indices == {0, 1, 2, 61, 62, 63, 64, 65}

\* the state after a Table::get that returned g
GetReturns(index, g) ==
    /\ panicked' = g.panic
    /\ last' = [NoLast EXCEPT !.op = "get", !.ret = g.ret,
                    !.err = IF g.ret = "Err" THEN "Failed" ELSE "",
                    !.name = g.field.name, !.value = g.field.value,
                    !.arg = index]

\* Table::get
Get(index) ==
    /\ panicked = ""
    /\ GetReturns(index, Table_get(table, index))
    /\ UNCHANGED <<table, decoderVars, encoderVars, build>>

NextTableGet ==
    \/ NextTable
    \/ \E index \in Indices : Get(index)

SpecTableGet == InitTable /\ [][NextTableGet]_vars

\* C11: Table::get(i) fails with InvalidInput when i = 0 or i is above
\* 61 + the number of dynamic entries, returns the i-th static entry for
\* 1 <= i <= 61, and the dynamic entry entries[i - 62] for the indices from
\* 62 to 61 + the number of dynamic entries.
C11_GetByIndex ==
    last.op = "get" =>
        LET i == last.arg
            n == Len(table.entries)
        IN  /\ (i = 0 \/ i > StaticEntry_entries_count + n) =>
                  /\ last.ret = "Err"
                  /\ ErrorKind_of(last.err) = "InvalidInput"
            /\ (1 <= i /\ i <= StaticEntry_entries_count) =>
                  /\ last.ret = "Ok"
                  /\ LastField = StaticTable[i]
            /\ (StaticEntry_entries_count < i /\ i <= StaticEntry_entries_count + n) =>
                  /\ last.ret = "Ok"
                  /\ LastField = table.entries[i - StaticEntry_entries_count]

\* C11 for the indices above zero
C11_GetByIndexAboveZero == last.arg # 0 => C11_GetByIndex

(***************************************************************************)
(* Index zero in the decoder (SpecDecoder).                                *)
(***************************************************************************)
\* C12: decode_field on an indexed representation of index zero (the octet
\* 0x80) fails with InvalidInput: it does not panic and yields no field.
C12_IndexZeroRefused ==
    (last.op = "decode_field" /\ last.rep = "Indexed" /\ last.arg = 0) =>
        /\ last.ret = "Err"
        /\ ErrorKind_of(last.err) = "InvalidInput"

\* C12 in a release build, where the subtraction 0 - 62 wraps
C12_IndexZeroRefusedRelease == build = "release" => C12_IndexZeroRefused

(***************************************************************************)
(* Properties of the encoder (SpecEncoder).                                *)
(***************************************************************************)
\* C13: encode_field of an indexed field or of a literal whose (name) index
\* is above 61 + the number of dynamic entries fails, leaves the table of the
\* encoder as it was and writes nothing; an encode_field that fails has
\* changed nothing (validation comes first), and octets are written only by
\* an encode_field whose push came back (the write comes last).
C13_ValidatePushWrite ==
    [][last'.op = "encode_field" =>
          /\ last'.arg > StaticEntry_entries_count + Len(etable.entries) =>
                /\ last'.ret = "Err"
                /\ etable' = etable
                /\ sink' = sink
          /\ last'.ret = "Err" => (etable' = etable /\ sink' = sink)
          /\ sink' # sink => last'.ret = "Ok"]_vars

\* encode_field refused a literal whose name index is beyond the table, with
\* an entry in the table and octets in the sink
C13_Witness ==
    /\ last.op = "encode_field"
    /\ last.rep = "Literal"
    /\ last.arg > StaticEntry_entries_count + Len(etable.entries)
    /\ last.ret = "Err"
    /\ etable.entries # <<>>
    /\ sink # <<>>

\* C14: Encoder::set_dynamic_table_size_soft_limit(s) fails when s is above
\* the hard limit and then leaves the table and the pending queue as they
\* were; when it succeeds and the soft limit changes, the one value appended
\* to the pending queue is the soft limit held before the call; when s is the
\* soft limit held, nothing is appended.
C14_SoftLimitQueuesOldValue ==
    [][last'.op = "set_dynamic_table_size_soft_limit" =>
          /\ last'.arg > etable.size_hard_limit => last'.ret = "Err"
          /\ last'.ret = "Err" => (etable' = etable /\ updates' = updates)
          /\ (last'.ret = "Ok" /\ last'.arg # etable.size_soft_limit) =>
                /\ etable'.size_soft_limit = last'.arg
                /\ updates' = Append(updates, etable.size_soft_limit)
          /\ (last'.ret = "Ok" /\ last'.arg = etable.size_soft_limit) =>
                updates' = updates]_vars

\* the soft limit was changed a second time: two values are pending, and the
\* younger one is not the limit that was set
C14_Witness ==
    /\ last.op = "set_dynamic_table_size_soft_limit"
    /\ last.ret = "Ok"
    /\ Len(updates) = 2
    /\ updates[2] # last.arg
    /\ updates[2] # updates[1]

\* the max_size values of the size updates that octets consists of, read as
\* the decoder reads them
RECURSIVE DecodedUpdates(_, _)
DecodedUpdates(octets, off) ==
    IF off < Len(octets) /\ IsSizeUpdate(octets[off + 1])
                         /\ DynamicTableSizeUpdate_decode(octets, off).ret = "Ok"
    THEN <<DynamicTableSizeUpdate_decode(octets, off).value>>
             \o DecodedUpdates(octets, DynamicTableSizeUpdate_decode(octets, off).off)
    ELSE IF off = Len(octets) THEN <<>> ELSE <<-1>>

\* C15: Encoder::enter_header_block writes one size update per pending value,
\* in the order they were queued, and empties the queue; the fields of the
\* block are written behind them; the queue stays empty until a limit setter
\* changes the soft limit again, so a later block starts with no size update
\* unless that happened.
C15_PendingUpdatesDrained ==
    /\ [](ephase = "block" => updates = <<>>)
    /\ [][/\ last'.op = "encoder_enter_header_block" =>
                /\ DecodedUpdates(sink', 0) = updates
                /\ updates' = <<>>
          /\ last'.op = "encode_field" =>
                (Len(sink') >= Len(sink) /\ SubSeq(sink', 1, Len(sink)) = sink)
          /\ updates' # updates =>
                \/ last'.op = "encoder_enter_header_block"
                \/ /\ last'.op \in {"set_dynamic_table_size_soft_limit",
                                    "set_dynamic_table_size_hard_limit"}
                   /\ etable'.size_soft_limit # etable.size_soft_limit]_vars

\* a block was entered with two different values pending
C15_Witness ==
    /\ last.op = "encoder_enter_header_block"
    /\ Len(DecodedUpdates(sink, 0)) = 2
    /\ DecodedUpdates(sink, 0)[1] # DecodedUpdates(sink, 0)[2]

\* a field was written behind the size updates of its block
C15_FieldBehindUpdates ==
    /\ last.op = "encode_field"
    /\ last.ret = "Ok"
    /\ Len(sink) >= 2
    /\ IsSizeUpdate(sink[1])

\* C16: Encoder::set_dynamic_table_size_hard_limit(h) sets the hard limit to
\* h in every call; when h is below the soft limit, the soft limit becomes h,
\* entries are evicted until the size fits, and the soft limit held before is
\* appended to the pending queue; when h is not below the soft limit, the
\* soft limit, the entries and the pending queue stay as they were.
C16_HardLimitOfEncoder ==
    [][last'.op = "set_dynamic_table_size_hard_limit" =>
          /\ etable'.size_hard_limit = last'.arg
          /\ last'.arg < etable.size_soft_limit =>
                /\ etable'.size_soft_limit = last'.arg
                /\ etable'.size <= last'.arg
                /\ \E k \in 0..Len(etable.entries) :
                       etable'.entries = WithoutOldest(etable.entries, k)
                /\ updates' = Append(updates, etable.size_soft_limit)
          /\ last'.arg >= etable.size_soft_limit =>
                /\ etable'.size_soft_limit = etable.size_soft_limit
                /\ etable'.entries = etable.entries
                /\ updates' = updates]_vars

\* C16 for the calls that do not panic
C16_HardLimitOfEncoderNoPanic ==
    [][(last'.op = "set_dynamic_table_size_hard_limit" /\ panicked' = "") =>
          /\ etable'.size_hard_limit = last'.arg
          /\ last'.arg < etable.size_soft_limit =>
                /\ etable'.size_soft_limit = last'.arg
                /\ etable'.size <= last'.arg
                /\ \E k \in 0..Len(etable.entries) :
                       etable'.entries = WithoutOldest(etable.entries, k)
                /\ updates' = Append(updates, etable.size_soft_limit)
          /\ last'.arg >= etable.size_soft_limit =>
                /\ etable'.size_soft_limit = etable.size_soft_limit
                /\ etable'.entries = etable.entries
                /\ updates' = updates]_vars

(***************************************************************************)
(* The limits of the dynamic table driven directly (SpecTable).            *)
(***************************************************************************)
\* C18: a set_size_soft_limit(s) that succeeds sets size_soft_limit to s and
\* evicts oldest entries in the same call until size <= s; with s not below
\* the soft limit held, no entry is evicted.
C18_SoftLimitEvictsAtOnce ==
    [][(last'.op = "set_size_soft_limit" /\ last'.ret = "Ok") =>
          /\ table'.size_soft_limit = last'.arg
          /\ table'.size <= last'.arg
          /\ SumEntrySizes(table'.entries) <= last'.arg
          /\ \E k \in 0..Len(table.entries) :
                 table'.entries = WithoutOldest(table.entries, k)
          /\ last'.arg >= table.size_soft_limit => table'.entries = table.entries]_vars

\* a lowered soft limit evicted an entry and left another
C18_Witness ==
    /\ last.op = "set_size_soft_limit"
    /\ last.ret = "Ok"
    /\ last.evicted > 0
    /\ table.entries # <<>>

\* C19: set_size_hard_limit(h) sets size_hard_limit to h in every call; with
\* h below the soft limit it sets size_soft_limit to h as well and evicts
\* oldest entries until size <= h; with h not below the soft limit, the soft
\* limit, the entries and the size stay as they were.
C19_HardLimitOfTable ==
    [][last'.op = "set_size_hard_limit" =>
          /\ table'.size_hard_limit = last'.arg
          /\ last'.arg < table.size_soft_limit =>
                /\ table'.size_soft_limit = last'.arg
                /\ table'.size <= last'.arg
                /\ \E k \in 0..Len(table.entries) :
                       table'.entries = WithoutOldest(table.entries, k)
          /\ last'.arg >= table.size_soft_limit =>
                /\ table'.size_soft_limit = table.size_soft_limit
                /\ table'.entries = table.entries
                /\ table'.size = table.size]_vars

\* C19 for the calls that do not panic
C19_HardLimitOfTableNoPanic ==
    [][(last'.op = "set_size_hard_limit" /\ panicked' = "") =>
          /\ table'.size_hard_limit = last'.arg
          /\ last'.arg < table.size_soft_limit =>
                /\ table'.size_soft_limit = last'.arg
                /\ table'.size <= last'.arg
                /\ \E k \in 0..Len(table.entries) :
                       table'.entries = WithoutOldest(table.entries, k)
          /\ last'.arg >= table.size_soft_limit =>
                /\ table'.size_soft_limit = table.size_soft_limit
                /\ table'.entries = table.entries
                /\ table'.size = table.size]_vars

(***************************************************************************)
(* The limits of the decoder (SpecDecoder), and a soft limit above the     *)
(* hard limit asked of the table or of the decoder (SpecTableOrDecoder).   *)
(***************************************************************************)
InitTableOrDecoder == InitTable \/ InitDecoder

NextTableOrDecoder ==
    \/ phase = "off" /\ NextTable
    \/ NextDecoder

SpecTableOrDecoder == InitTableOrDecoder /\ [][NextTableOrDecoder]_vars

\* The leading size updates of a block up to the first one that asks for
\* more than the hard limit: refused says there is one, t is the table as
\* the updates before it left it.
RECURSIVE UpdatesUntilRefused(_, _, _)
UpdatesUntilRefused(t, octets, off) ==
    IF /\ off < Len(octets)
       /\ IsSizeUpdate(octets[off + 1])
       /\ DynamicTableSizeUpdate_decode(octets, off).ret = "Ok"
    THEN IF DynamicTableSizeUpdate_decode(octets, off).value > t.size_hard_limit
         THEN [refused |-> TRUE, t |-> t]
         ELSE UpdatesUntilRefused(
                  DynamicTable_set_size_soft_limit(
                      t, DynamicTableSizeUpdate_decode(octets, off).value).t,
                  octets, DynamicTableSizeUpdate_decode(octets, off).off)
    ELSE [refused |-> FALSE, t |-> t]

\* C17: set_size_soft_limit(s) with s above size_hard_limit fails with
\* InvalidInput and leaves the limits, the entries and the size as they were;
\* so does a size update above the hard limit among the leading size updates
\* of a block given to Decoder::enter_header_block, which fails the call and
\* leaves the table as the updates before it left it.
C17_SoftLimitAboveHardRefused ==
    [][/\ (last'.op = "set_size_soft_limit" /\ last'.arg > table.size_hard_limit) =>
             /\ last'.ret = "Err"
             /\ ErrorKind_of(last'.err) = "InvalidInput"
             /\ table' = table
       /\ (/\ last'.op = "enter_header_block"
           /\ UpdatesUntilRefused(table, block', 0).refused
           /\ panicked' = "") =>
             /\ last'.ret = "Err"
             /\ ErrorKind_of(last'.err) = "InvalidInput"
             /\ table' = UpdatesUntilRefused(table, block', 0).t]_vars

\* enter_header_block refused the size update to 121 behind the size update
\* to 0 that it applied, with the table as that first update left it
C17_Witness ==
    /\ last.op = "enter_header_block"
    /\ last.ret = "Err"
    /\ block = <<32, 63, 90>>
    /\ table.size_soft_limit = 0
    /\ table.size_hard_limit > 0

\* the same on the table driven directly, with an entry in it
C17_TableReached ==
    /\ last.op = "set_size_soft_limit"
    /\ last.ret = "Err"
    /\ last.arg > table.size_hard_limit
    /\ table.entries # <<>>

C20_Refused ==
    /\ last.op = "set_dynamic_table_size_hard_limit"
    /\ last.ret = "Err"
    /\ last.arg < table.size_soft_limit

(***************************************************************************)
(* The integer and string codecs of literal.rs on their own (SpecLiteral). *)
(* An encode writes into a fresh sink; a decode reads the sink when there  *)
(* is one, else octets of its own, and leaves the reader in block, offset. *)
(***************************************************************************)
\* the prefix widths of encode_u16 and decode_u16
PrefixBits == 1..8

\* the prepended values of a prefix width: the least, the greatest and one
PrependedValues(prefix_bits) == {0, 1, 2 ^ (8 - prefix_bits) - 1} \cap 0..(2 ^ (8 - prefix_bits) - 1)

\* the values of a prefix width: around the end of the prefix, around the
\* ends of one and of two continuation octets, and the greatest u16
IntValues(prefix_bits) ==
    LET max_prefix_value == 2 ^ prefix_bits - 1
    IN  {0, 10, 42, 1337, U16 - 1,
         max_prefix_value - 1, max_prefix_value, max_prefix_value + 1,
         max_prefix_value + 127, max_prefix_value + 128,
         max_prefix_value + 16383, max_prefix_value + 16384}

\* what encode_u16 or decode_u16 was given and what it returned
IntLast(op, ret, err, prefix_bits, prepended, value) ==
    [op |-> op, ret |-> ret, err |-> err, prefix_bits |-> prefix_bits,
     prepended |-> prepended, value |-> value]

InitLiteral ==
    /\ InitCommon
    /\ phase = "off"
    /\ ephase = "off"
    /\ table = DynamicTable_new(0)
    /\ etable = DynamicTable_new(0)

\* literal::encode_u16 into a fresh Vec<u8>
EncodeU16(prepended_value, prefix_bits, value) ==
    /\ panicked = ""
    /\ IF encode_u16_overflows(prefix_bits, value)
       THEN /\ sink' = <<>>
            /\ panicked' = "overflow"
            /\ last' = IntLast("encode_u16", "panic", "", prefix_bits, prepended_value, value)
       ELSE /\ sink' = encode_u16(prepended_value, prefix_bits, value)
            /\ panicked' = ""
            /\ last' = IntLast("encode_u16", "Ok", "", prefix_bits, prepended_value, value)
    /\ block' = <<>>
    /\ offset' = 0
    /\ UNCHANGED <<table, phase, etable, updates, ephase, build>>

\* the state after a decode_u16 of octets that returned r
DecodeU16Returns(octets, prefix_bits, r) ==
    /\ block' = octets
    /\ offset' = r.off
    /\ panicked' = IF r.ret = "panic" THEN r.err ELSE ""
    /\ last' = IntLast("decode_u16", r.ret, IF r.ret = "panic" THEN "" ELSE r.err,
                       prefix_bits, r.prepended, r.value)

\* literal::decode_u16 on a reader of octets
DecodeU16(octets, prefix_bits) ==
    /\ panicked = ""
    /\ DecodeU16Returns(octets, prefix_bits, decode_u16(octets, 0, prefix_bits))
    /\ sink' = <<>>
    /\ UNCHANGED <<table, phase, etable, updates, ephase, build>>

\* The octets decode_u16 is given when nothing was written: the examples of
\* RFC 7541 C.1, cut integers, and integers of one to four continuation
\* octets at and above the end of the u16 range.  The first octet 255 has
\* every bit of the prefix set for every prefix width.
IntegerOctets ==
    { <<>>, <<10>>, <<42>>, <<202>>, <<223, 154, 10>>,
      <<255>>, <<255, 128>>, <<255, 0>>, <<255, 127>>, <<255, 128, 1>>,
      <<255, 255, 127>>, <<255, 128, 128, 3>>, <<255, 255, 255, 3>>,
      <<255, 128, 128, 4>>, <<255, 128, 128, 127>>, <<255, 255, 255, 127>>,
      <<255, 128, 128, 128, 0>>, <<255, 128, 128, 128, 1>>,
      <<255, 255, 255, 255, 127>> }

\* huffman::encode on the strings the model holds the code of: the empty
\* string, and one octet of a 5-bit code, padded with three bits set
huffman_encode(octets) ==
    IF octets = <<>> THEN <<>>
    ELSE <<(CHOOSE c \in 0..9 : HuffmanCodes5[c + 1] = octets[1]) * 8 + 7>>

\* HpackString::new
HpackString_new(octets, encoding) ==
    [encoding |-> encoding,
     octets |-> IF encoding = "Raw" THEN octets ELSE huffman_encode(octets)]

\* the lengths of the strings written raw: around the end of the 7-bit
\* prefix and around the end of one continuation octet
StringLens == {0, 1, 2, 126, 127, 128, 254, 255, 256}

\* the strings HpackString::new is given with either encoding
RawStrings == {ByteStr(97, n) : n \in StringLens} \cup {<<0, 255>>}
HuffmanStrings == {<<>>, <<48>>, <<97>>, <<116>>}

\* what HpackString::encode or HpackString::decode was given and what it
\* returned: plain holds the octets of the string without the Huffman code
StrLast(op, ret, err, encoding, octets, plain) ==
    [op |-> op, ret |-> ret, err |-> err, encoding |-> encoding,
     octets |-> octets, plain |-> plain]

\* HpackString::new followed by HpackString::encode into a fresh Vec<u8>
EncodeString(octets, encoding) ==
    /\ panicked = ""
    /\ sink' = HpackString_encode(HpackString_new(octets, encoding))
    /\ last' = StrLast("HpackString_encode", "Ok", "", encoding,
                       HpackString_new(octets, encoding).octets, octets)
    /\ block' = <<>>
    /\ offset' = 0
    /\ UNCHANGED <<table, phase, panicked, etable, updates, ephase, build>>

\* the state after a HpackString::decode that returned r and an into_raw of
\* the string that returned plain
DecodeStringReturns(octets, r, plain) ==
    /\ block' = octets
    /\ offset' = r.off
    /\ panicked' = IF r.ret = "panic" THEN r.err ELSE ""
    /\ last' = StrLast("HpackString_decode", r.ret,
                       IF r.ret = "panic" THEN "" ELSE r.err,
                       r.str.encoding, r.str.octets,
                       IF r.ret = "Ok" THEN plain ELSE [ret |-> "", octets |-> <<>>])

\* HpackString::decode on a reader of octets, and into_raw of what it returned
DecodeString(octets) ==
    /\ panicked = ""
    /\ DecodeStringReturns(octets, HpackString_decode(octets, 0),
                           into_plain_bytes(HpackString_decode(octets, 0).str))
    /\ sink' = <<>>
    /\ UNCHANGED <<table, phase, etable, updates, ephase, build>>

\* the octets a reader is over: what was written, whole or cut short by one
\* or two octets, else octets of its own
ReaderOctets(own) ==
    IF sink = <<>> THEN own
    ELSE {SubSeq(sink, 1, Len(sink) - k) : k \in 0..(IF Len(sink) < 2 THEN Len(sink) ELSE 2)}

\* the string literals HpackString::decode is given when nothing was written
StringOctets == { <<>>, <<0>>, <<1>>, <<1, 97>>, <<2, 97>>, <<129, 15>>, <<129, 8>>,
                  <<127, 0>>, <<127, 1, 97>>, <<255, 128>> }

NextLiteral ==
    \/ \E prefix_bits \in PrefixBits :
          \E prepended_value \in PrependedValues(prefix_bits), value \in IntValues(prefix_bits) :
              EncodeU16(prepended_value, prefix_bits, value)
    \/ \E prefix_bits \in PrefixBits, octets \in ReaderOctets(IntegerOctets) :
          DecodeU16(octets, prefix_bits)
    \/ \E octets \in RawStrings : EncodeString(octets, "Raw")
    \/ \E octets \in HuffmanStrings : EncodeString(octets, "Huffman")
    \/ \E octets \in ReaderOctets(StringOctets) : DecodeString(octets)

SpecLiteral == InitLiteral /\ [][NextLiteral]_vars

\* C21: for every prefix width N in 1..8, prepended value P below 2^(8-N) and
\* value V of 0..65535, encode_u16(P, N, V) returns and decode_u16 on the
\* octets it wrote returns (P, V) with all the octets consumed.
C21_IntegerRoundTrip ==
    /\ [](last.op = "encode_u16" => last.ret = "Ok")
    /\ [][(/\ last.op = "encode_u16"
           /\ last'.op = "decode_u16"
           /\ last'.prefix_bits = last.prefix_bits
           /\ block' = sink) =>
             /\ last'.ret = "Ok"
             /\ last'.prepended = last.prepended
             /\ last'.value = last.value
             /\ offset' = Len(sink)]_vars

\* C21 for the calls of encode_u16 that do not shift a u8 by 8 bits
C21_IntegerRoundTripBelow8 ==
    /\ [](last.op = "encode_u16"
            /\ ~(last.prefix_bits = 8 /\ last.value >= 255 /\ build = "debug")
          => last.ret = "Ok")
    /\ [][(/\ last.op = "encode_u16"
           /\ last'.op = "decode_u16"
           /\ last'.prefix_bits = last.prefix_bits
           /\ block' = sink) =>
             /\ last'.ret = "Ok"
             /\ last'.prepended = last.prepended
             /\ last'.value = last.value
             /\ offset' = Len(sink)]_vars

\* the value 65535 went through three continuation octets and came back
C21_Reached ==
    /\ last.op = "decode_u16"
    /\ last.ret = "Ok"
    /\ last.value = U16 - 1
    /\ Len(block) = 4
    /\ offset = 4

\* The integer that octets hold behind the prefix (RFC 7541 5.1), as a
\* number without a width: the 7-bit groups of the continuation octets, least
\* significant first, up to the first octet without the high bit.  complete
\* says that this last octet is there.
RECURSIVE ContinuationValue(_, _, _)
ContinuationValue(octets, off, weight) ==
    IF off >= Len(octets)
    THEN [complete |-> FALSE, value |-> 0]
    ELSE IF octets[off + 1] >= 128
    THEN LET rest == ContinuationValue(octets, off + 1, weight * 128)
         IN  [complete |-> rest.complete,
              value |-> (octets[off + 1] % 128) * weight + rest.value]
    ELSE [complete |-> TRUE, value |-> octets[off + 1] * weight]

\* the integer that octets hold for a prefix width
IntegerValue(octets, prefix_bits) ==
    IF octets = <<>>
    THEN [complete |-> FALSE, value |-> 0]
    ELSE IF octets[1] % (2 ^ prefix_bits) < 2 ^ prefix_bits - 1
    THEN [complete |-> TRUE, value |-> octets[1] % (2 ^ prefix_bits)]
    ELSE LET rest == ContinuationValue(octets, 1, 1)
         IN  [complete |-> rest.complete, value |-> 2 ^ prefix_bits - 1 + rest.value]

\* C22: decode_u16 fails with InvalidInput on octets whose prefix and
\* continuation octets hold a value above 65535; the value it returns is the
\* value the octets hold, and it does not panic.
C22_IntegerOverflowRefused ==
    last.op = "decode_u16" =>
        /\ last.ret # "panic"
        /\ (/\ IntegerValue(block, last.prefix_bits).complete
            /\ IntegerValue(block, last.prefix_bits).value > U16 - 1) =>
              /\ last.ret = "Err"
              /\ ErrorKind_of(last.err) = "InvalidInput"
        /\ last.ret = "Ok" => last.value = IntegerValue(block, last.prefix_bits).value

\* C22 for the integers of at most two continuation octets, whose groups are
\* shifted by 0 and by 7 bits
C22_IntegerOverflowRefusedTwoGroups ==
    (last.op = "decode_u16" /\ Len(block) <= 3) => C22_IntegerOverflowRefused

\* a sum above 65535 of groups that fit has been refused
C22_Reached ==
    /\ last.op = "decode_u16"
    /\ last.ret = "Err"
    /\ last.err = "Failed"
    /\ block = <<255, 255, 255, 3>>

(***************************************************************************)
(* The representations of field.rs on their own (SpecField): a             *)
(* representation is written into a fresh sink and read back.              *)
(***************************************************************************)
\* DynamicTableSizeUpdate { max_size } of the integer decoded; the max_size
\* is held in the index of the Rep
DynamicTableSizeUpdate_of(i) ==
    RepResult(i.ret, i.err,
              IF i.ret = "Ok" THEN Rep("Update", "", i.value, NoString, NoString)
              ELSE NoRep,
              i.off)

\* HeaderField::decode of field.rs on the octet peeked: an indexed field for
\* 1xxxxxxx, a size update for 001xxxxx, a literal otherwise
HeaderField_decode_of(octets, off, p) ==
    IF p.ret = "Err"
    THEN RepResult("Err", "Io", NoRep, p.off)
    ELSE IF p.octet \div 128 = 1
    THEN IndexedHeaderField_decode(octets, off)
    ELSE IF IsSizeUpdate(p.octet)
    THEN DynamicTableSizeUpdate_of(DynamicTableSizeUpdate_decode(octets, off))
    ELSE LiteralHeaderField_decode(octets, off, p.octet)

\* HeaderField::decode of field.rs
HeaderField_decode(octets, off) == HeaderField_decode_of(octets, off, peek_u8(octets, off))

\* a string literal sent with the Huffman code
HuffmanString(octets) == HpackString_new(octets, "Huffman")

\* the indices written: around the ends of the prefixes of 4, 6 and 7 bits
\* and of one continuation octet
FieldIndices == {1, 14, 15, 16, 62, 63, 64, 126, 127, 128, 300}

\* the names and the values of the literals written
FieldStrings == {RawString(<<>>), RawString(<<97, 98>>), HuffmanString(<<97>>)}

LiteralForms == {"WithIndexing", "WithoutIndexing", "NeverIndexed"}

\* the representations HeaderField::encode is given: indexed fields, and the
\* literals of the three forms with an indexed name or a literal name
FieldReps ==
    {Rep("Indexed", "", i, NoString, NoString) : i \in FieldIndices}
    \cup {Rep("Literal", form, i, NoString, v) :
              form \in LiteralForms, i \in FieldIndices, v \in FieldStrings}
    \cup {Rep("Literal", form, 0, n, v) :
              form \in LiteralForms, n \in FieldStrings, v \in FieldStrings}

\* what HeaderField::encode or HeaderField::decode was given and what it
\* returned
RepLast(op, ret, err, rep) == [op |-> op, ret |-> ret, err |-> err, rep |-> rep]

\* HeaderField::encode into a fresh Vec<u8>
EncodeRep(rep) ==
    /\ panicked = ""
    /\ sink' = RawHeaderField_encode(rep)
    /\ last' = RepLast("HeaderField_encode", "Ok", "", rep)
    /\ block' = <<>>
    /\ offset' = 0
    /\ UNCHANGED <<table, phase, panicked, etable, updates, ephase, build>>

\* the state after a HeaderField::decode of octets that returned r
DecodeRepReturns(octets, r) ==
    /\ block' = octets
    /\ offset' = r.off
    /\ panicked' = IF r.ret = "panic" THEN r.err ELSE ""
    /\ last' = RepLast("HeaderField_decode", r.ret,
                       IF r.ret = "panic" THEN "" ELSE r.err, r.rep)

\* HeaderField::decode on a reader of octets
DecodeRep(octets) ==
    /\ panicked = ""
    /\ DecodeRepReturns(octets, HeaderField_decode(octets, 0))
    /\ sink' = <<>>
    /\ UNCHANGED <<table, phase, etable, updates, ephase, build>>

NextField ==
    \/ \E rep \in FieldReps : EncodeRep(rep)
    \/ \E octets \in ReaderOctets(Items) : DecodeRep(octets)

SpecField == InitLiteral /\ [][NextField]_vars

\* C23: decoding the octets of an encoded representation (indexed, literal
\* with indexing, without indexing or never indexed, with an indexed name or
\* a literal name) yields the representation that was encoded: the same
\* kind, form, name index or name octets and value octets, with all the
\* octets consumed.
C23_FieldRoundTrip ==
    [][(/\ last.op = "HeaderField_encode"
        /\ last'.op = "HeaderField_decode"
        /\ block' = sink) =>
          /\ last'.ret = "Ok"
          /\ last'.rep = last.rep
          /\ offset' = Len(sink)]_vars

\* C23 for the representations other than a never-indexed literal with an
\* indexed name
C23_FieldRoundTripOtherForms ==
    [][(/\ last.op = "HeaderField_encode"
        /\ last'.op = "HeaderField_decode"
        /\ block' = sink
        /\ ~(last.rep.form = "NeverIndexed" /\ last.rep.index # 0)) =>
          /\ last'.ret = "Ok"
          /\ last'.rep = last.rep
          /\ offset' = Len(sink)]_vars

\* a never-indexed literal with a literal name came back as it was written
C23_Reached ==
    /\ last.op = "HeaderField_decode"
    /\ last.ret = "Ok"
    /\ last.rep.form = "NeverIndexed"
    /\ last.rep.name.octets = <<97, 98>>
    /\ offset = Len(block)

(***************************************************************************)
(* Properties of the string codec (SpecLiteral).                           *)
(***************************************************************************)
\* C24: HpackString::decode on the octets that HpackString::encode wrote for
\* a string s and an encoding returns the encoding and octets that into_raw
\* turns into s, with the length prefix and the octets of the string
\* consumed and nothing else; a string literal whose length prefix says more
\* than the octets that remain fails with InvalidInput.
C24_StringRoundTrip ==
    /\ [][(/\ last.op = "HpackString_encode"
           /\ last'.op = "HpackString_decode"
           /\ block' = sink) =>
             /\ last'.ret = "Ok"
             /\ last'.encoding = last.encoding
             /\ last'.plain = [ret |-> "Ok", octets |-> last.plain]
             /\ offset' = Len(sink)
             /\ offset' = Len(encode_u16(0, 7, Len(last.octets))) + Len(last.octets)]_vars
    /\ [](last.op = "HpackString_decode" =>
             LET n == decode_u16(block, 0, 7)
             IN  (n.ret = "Ok" /\ n.value > Len(block) - n.off) =>
                     /\ last.ret = "Err"
                     /\ ErrorKind_of(last.err) = "InvalidInput")

\* a raw string of 128 octets, its length behind the 7-bit prefix in a
\* continuation octet, came back as it was written
C24_Witness ==
    /\ last.op = "HpackString_decode"
    /\ last.ret = "Ok"
    /\ last.encoding = "Raw"
    /\ Len(last.plain.octets) = 128
    /\ offset = 130
    /\ offset = Len(block)

\* a string with the Huffman code came back as it was written
C24_HuffmanReached ==
    /\ last.op = "HpackString_decode"
    /\ last.ret = "Ok"
    /\ last.encoding = "Huffman"
    /\ last.plain = [ret |-> "Ok", octets |-> <<97>>]

\* a string of 128 octets cut short by one octet was refused
C24_CutReached ==
    /\ last.op = "HpackString_decode"
    /\ last.ret = "Err"
    /\ last.err = "Failed"
    /\ Len(block) = 129
    /\ block[2] = 1

(***************************************************************************)
(* An encoder and the decoder of its blocks (SpecPair): the two are made   *)
(* with the same maximum, and every block the encoder finishes is handed   *)
(* to the decoder, which decodes its fields until decode_field returns no  *)
(* field or fails.  A run ends with the first block that the decoder fails *)
(* on, or returns other fields or other entries for than the encoder took: *)
(* phase is "failed" from then on.                                         *)
(***************************************************************************)
\* The loop of a caller over HeaderBlockDecoder::decode_field, r being what
\* the call at hand returned and fields the fields of the calls before it.
RECURSIVE decode_fields(_, _, _)
decode_fields(octets, fields, r) ==
    IF r.res.ret = "Some"
    THEN decode_fields(octets, Append(fields, r.res.field),
                       decode_field(r.res.t, octets, r.off))
    ELSE [ret |-> IF r.res.ret = "None" THEN "Ok" ELSE r.res.ret,
          err |-> r.res.err, t |-> r.res.t, fields |-> fields,
          off |-> r.off, panic |-> r.res.panic]

\* decode_fields behind the Decoder::enter_header_block that returned e
decode_block_entered(octets, e) ==
    IF e.ret # "Ok"
    THEN [ret |-> e.ret, err |-> e.err, t |-> e.t, fields |-> <<>>,
          off |-> e.off, panic |-> e.panic]
    ELSE decode_fields(octets, <<>>, decode_field(e.t, octets, e.off))

\* Decoder::enter_header_block on a block and decode_field to its end
decode_block(t, octets) == decode_block_entered(octets, enter_header_block(t, octets, 0))

\* the field a representation stands for in the table t: the entry of an
\* indexed field, the resolved name and the plain value of a literal
field_of_rep(t, rep) ==
    IF rep.kind = "Indexed"
    THEN Table_get(t, rep.index).field
    ELSE HeaderField_from_cow(resolve_name(t, rep).octets,
                              into_plain_bytes(rep.value).octets)

\* what the encoder and the decoder of its blocks did last: given holds the
\* fields of the representations that encode_field took in the block at
\* hand, yielded the fields of the block that the decoder returned
PairLast(op, ret, err, given, yielded) ==
    [op |-> op, ret |-> ret, err |-> err, given |-> given, yielded |-> yielded]

\* the fields given in the block at hand
Given == IF last.op = "encode_field" THEN last.given ELSE <<>>

InitPair ==
    /\ InitCommon
    /\ phase = "idle"
    /\ ephase = "idle"
    /\ \E m \in CodecLimits :
          /\ table = DynamicTable_new(m)
          /\ etable = DynamicTable_new(m)

\* the state after an encode_field of rep that returned r
PairEncodeFieldReturns(rep, r) ==
    /\ etable' = r.t
    /\ panicked' = r.panic
    /\ sink' = sink \o r.written
    /\ last' = PairLast("encode_field", r.ret, r.err,
                        IF r.ret = "Ok" THEN Append(Given, field_of_rep(etable, rep))
                        ELSE Given,
                        <<>>)

\* HeaderBlockEncoder::encode_field
PairEncodeField(rep) ==
    /\ panicked = ""
    /\ ephase = "block"
    /\ Len(sink) < MaxSinkLen
    /\ PairEncodeFieldReturns(rep, encode_field(etable, rep))
    /\ UNCHANGED <<table, decoderVars, updates, ephase, build>>

\* the decoder returned what the encoder was given and holds its entries
InStep(r) ==
    /\ r.ret = "Ok"
    /\ r.fields = Given
    /\ r.t.entries = etable.entries
    /\ r.t.size = etable.size

\* the state after the decoder went through a block and returned r
PairDecodeBlockReturns(r) ==
    /\ table' = r.t
    /\ phase' = IF InStep(r) THEN "idle" ELSE "failed"
    /\ panicked' = r.panic
    /\ block' = sink
    /\ offset' = r.off
    /\ last' = PairLast("decode_block", r.ret, r.err, Given, r.fields)

\* HeaderBlockEncoder::finish, and the block handed to the decoder:
\* Decoder::enter_header_block and decode_field to the end of the block
FinishAndDecode ==
    /\ panicked = ""
    /\ ephase = "block"
    /\ ephase' = "idle"
    /\ sink' = <<>>
    /\ PairDecodeBlockReturns(decode_block(table, sink))
    /\ UNCHANGED <<etable, updates, build>>

NextPair ==
    \/ phase = "idle" /\ EncoderEnterHeaderBlock
    \/ \E rep \in EncoderFields : PairEncodeField(rep)
    \/ FinishAndDecode

SpecPair == InitPair /\ [][NextPair]_vars

\* C25: a decoder made with the maximum of the encoder and fed every block
\* of it in order (the soft limit never changed) yields the fields the
\* encoder was given for the block, and after the block the two dynamic
\* tables hold the same entries in the same order, with the same size.
C25_DecoderFollowsEncoder ==
    last.op = "decode_block" =>
        /\ last.ret = "Ok"
        /\ last.yielded = last.given
        /\ table.entries = etable.entries
        /\ table.size = etable.size

\* C25 for the blocks that hold a field and whose first octet has bit 5
\* clear
C25_DecoderFollowsEncoderBit5Clear ==
    (last.op = "decode_block" /\ block # <<>> /\ ~is_leading_update(block[1]))
        => C25_DecoderFollowsEncoder

\* the decoder yielded the two fields of a block, the second one by the
\* index of the entry that the first one inserted
C25_Reached ==
    /\ last.op = "decode_block"
    /\ last.ret = "Ok"
    /\ Len(last.yielded) = 2
    /\ last.yielded = last.given
    /\ block[1] = 65
    /\ block[Len(block)] = 190
    /\ table.entries # <<>>
    /\ table = etable

\* the three requests of RFC 7541 C.3 as the representations of their fields
\* (tests/decode.rs), for a table of 4096 octets
RequestExamples ==
    <<<<Rep("Indexed", "", 2, NoString, NoString),
         Rep("Indexed", "", 6, NoString, NoString),
         Rep("Indexed", "", 4, NoString, NoString),
         Rep("Literal", "WithIndexing", 1, NoString,
              RawString(<<119, 119, 119, 46, 101, 120, 97, 109, 112, 108, 101, 46, 99, 111, 109>>))>>,
       <<Rep("Indexed", "", 2, NoString, NoString),
         Rep("Indexed", "", 6, NoString, NoString),
         Rep("Indexed", "", 4, NoString, NoString),
         Rep("Indexed", "", 62, NoString, NoString),
         Rep("Literal", "WithIndexing", 24, NoString,
              RawString(<<110, 111, 45, 99, 97, 99, 104, 101>>))>>,
       <<Rep("Indexed", "", 2, NoString, NoString),
         Rep("Indexed", "", 7, NoString, NoString),
         Rep("Indexed", "", 5, NoString, NoString),
         Rep("Indexed", "", 63, NoString, NoString),
         Rep("Literal", "WithIndexing", 0, RawString(<<99, 117, 115, 116, 111, 109, 45, 107, 101, 121>>),
              RawString(<<99, 117, 115, 116, 111, 109, 45, 118, 97, 108, 117, 101>>))>>>>

\* the three responses of RFC 7541 C.5 (tests/encode.rs), for a table of
\* 256 octets
ResponseExamples ==
    <<<<Rep("Literal", "WithIndexing", 8, NoString,
              RawString(<<51, 48, 50>>)),
         Rep("Literal", "WithIndexing", 24, NoString,
              RawString(<<112, 114, 105, 118, 97, 116, 101>>)),
         Rep("Literal", "WithIndexing", 33, NoString,
              RawString(<<77, 111, 110, 44, 32, 50, 49, 32, 79, 99, 116, 32, 50, 48, 49, 51, 32, 50, 48, 58, 49, 51, 58, 50, 49, 32, 71, 77, 84>>)),
         Rep("Literal", "WithIndexing", 46, NoString,
              RawString(<<104, 116, 116, 112, 115, 58, 47, 47, 119, 119, 119, 46, 101, 120, 97, 109, 112, 108, 101, 46, 99, 111, 109>>))>>,
       <<Rep("Literal", "WithIndexing", 8, NoString,
              RawString(<<51, 48, 55>>)),
         Rep("Indexed", "", 65, NoString, NoString),
         Rep("Indexed", "", 64, NoString, NoString),
         Rep("Indexed", "", 63, NoString, NoString)>>,
       <<Rep("Indexed", "", 8, NoString, NoString),
         Rep("Indexed", "", 65, NoString, NoString),
         Rep("Literal", "WithIndexing", 33, NoString,
              RawString(<<77, 111, 110, 44, 32, 50, 49, 32, 79, 99, 116, 32, 50, 48, 49, 51, 32, 50, 48, 58, 49, 51, 58, 50, 50, 32, 71, 77, 84>>)),
         Rep("Indexed", "", 64, NoString, NoString),
         Rep("Literal", "WithIndexing", 26, NoString,
              RawString(<<103, 122, 105, 112>>)),
         Rep("Literal", "WithIndexing", 55, NoString,
              RawString(<<102, 111, 111, 61, 65, 83, 68, 74, 75, 72, 81, 75, 66, 90, 88, 79, 81, 87, 69, 79, 80, 73, 85, 65, 88, 81, 87, 69, 79, 73, 85, 59, 32, 109, 97, 120, 45, 97, 103, 101, 61, 51, 54, 48, 48, 59, 32, 118, 101, 114, 115, 105, 111, 110, 61, 49>>))>>>>

\* HeaderBlockEncoder::encode_field for the representations reps one after
\* the other, r being what the call before returned: the table, the octets
\* written and the fields given
RECURSIVE encode_fields(_, _, _, _)
encode_fields(reps, written, given, r) ==
    IF r.ret # "Ok" \/ reps = <<>>
    THEN [ret |-> r.ret, t |-> r.t, written |-> written \o r.written, given |-> given]
    ELSE encode_fields(Tail(reps), written \o r.written,
                       Append(given, field_of_rep(r.t, Head(reps))),
                       encode_field(r.t, Head(reps)))

\* a block of the representations reps written by the encoder of table et,
\* and the block read by the decoder of table dt
block_passed(dt, e) ==
    [etable |-> e.t, given |-> e.given, decoded |-> decode_block(dt, e.written)]

\* The sizes of the two tables after each of the blocks, for an encoder and
\* a decoder that hold the tables et and dt; -1 takes the place of the sizes
\* of a block that the decoder did not return the fields given of.
RECURSIVE sizes_after_blocks(_, _)
sizes_after_blocks(blocks, p) ==
    IF p.decoded.ret # "Ok" \/ p.decoded.fields # p.given
    THEN <<-1>>
    ELSE <<<<p.etable.size, p.decoded.t.size>>>>
             \o (IF blocks = <<>> THEN <<>>
                 ELSE sizes_after_blocks(
                          Tail(blocks),
                          block_passed(p.decoded.t,
                                       encode_fields(Head(blocks), <<>>, <<>>,
                                                     EncodeResult("Ok", "", p.etable, <<>>, "")))))

\* the sizes after each block of the examples, from new tables of max_size
ExampleSizes(max_size, blocks) ==
    Tail(sizes_after_blocks(
             blocks,
             [etable |-> DynamicTable_new(max_size), given |-> <<>>,
              decoded |-> [ret |-> "Ok", fields |-> <<>>, t |-> DynamicTable_new(max_size)]]))

\* the sequences of RFC 7541 C.3 and C.5 leave the sizes 57, 110, 164 and
\* 222, 222, 215 in the table of the encoder and in the table of the decoder
C25_ExamplesOfRFC ==
    last.op = "new" =>
        /\ ExampleSizes(4096, RequestExamples) = <<<<57, 57>>, <<110, 110>>, <<164, 164>>>>
        /\ ExampleSizes(256, ResponseExamples) = <<<<222, 222>>, <<222, 222>>, <<215, 215>>>>

(***************************************************************************)
(* Literals whose entry size is at and above the end of the u16 range, in  *)
(* a decoder or an encoder of a small and of the largest table             *)
(* (SpecLargeLiteral).                                                     *)
(***************************************************************************)
\* the sizes Decoder::new and Encoder::new are given
LargeLimits == {80, U16 - 1}

\* the lengths of the values: with a name of no octets, with a name of 8
\* octets and with the name of index 1 (10 octets) they give the entry sizes
\* 65535 and 65536
LargeLens == {U16 - 33, U16 - 32}

\* the literals with incremental indexing handed to encode_field
LargeFields ==
    {Rep("Literal", "WithIndexing", 0, RawString(<<>>), RawString(ByteStr(118, n))) :
         n \in LargeLens}
    \cup {Rep("Literal", "WithIndexing", 0, RawString(ByteStr(110, 8)),
              RawString(ByteStr(118, n - 8))) : n \in LargeLens}
    \cup {Rep("Literal", "WithIndexing", 1, NoString, RawString(ByteStr(118, n - 10))) :
              n \in LargeLens}

\* the blocks handed to Decoder::enter_header_block: one of the literals each
LargeBlocks == {RawHeaderField_encode(rep) : rep \in LargeFields}

InitLargeLiteral ==
    /\ InitCommon
    /\ \/ /\ phase = "idle"
          /\ ephase = "off"
          /\ \E m \in LargeLimits : table = DynamicTable_new(m)
          /\ etable = DynamicTable_new(0)
       \/ /\ phase = "off"
          /\ ephase = "idle"
          /\ table = DynamicTable_new(0)
          /\ \E m \in LargeLimits : etable = DynamicTable_new(m)

NextLargeLiteral ==
    \/ \E b \in LargeBlocks : EnterHeaderBlock(b)
    \/ DecodeField
    \/ DropHeaderBlock
    \/ EncoderEnterHeaderBlock
    \/ \E rep \in LargeFields : EncodeField(rep)
    \/ Finish

SpecLargeLiteral == InitLargeLiteral /\ [][NextLargeLiteral]_vars

\* the entry size of a field as a number without a width
TrueEntrySize(name, value) == Len(name) + Len(value) + 32

\* the entries of t fit the u16 range each
EntriesWithinU16(t) ==
    \A i \in 1..Len(t.entries) :
        TrueEntrySize(t.entries[i].name, t.entries[i].value) <= U16 - 1

\* C26: decode_field and encode_field refuse with InvalidInput a literal with
\* incremental indexing whose name length + value length + 32 is above
\* 65535, and no table holds an entry whose entry size is above 65535.
C26_LargeEntryRefused ==
    /\ [](EntriesWithinU16(table) /\ EntriesWithinU16(etable))
    /\ [][/\ (/\ phase = "block"
              /\ last'.op = "decode_field"
              /\ last'.form = "WithIndexing"
              /\ TrueEntrySize(resolve_name(table, decode_raw_field(block, offset).rep).octets,
                               decode_raw_field(block, offset).rep.value.octets) > U16 - 1) =>
                 /\ last'.ret = "Err"
                 /\ ErrorKind_of(last'.err) = "InvalidInput"
          /\ (/\ last'.op = "encode_field"
              /\ last'.form = "WithIndexing"
              /\ TrueEntrySize(IF last'.arg = 0 THEN last'.name
                               ELSE Table_get(etable, last'.arg).field.name,
                               last'.value) > U16 - 1) =>
                 /\ last'.ret = "Err"
                 /\ ErrorKind_of(last'.err) = "InvalidInput"]_vars

\* the part of C26 about the entries held
C26_EntriesWithinU16 == EntriesWithinU16(table) /\ EntriesWithinU16(etable)

\* a literal of entry size 65535 was inserted into a table of 65535 octets
C26_Reached ==
    /\ last.op = "decode_field"
    /\ last.ret = "Some"
    /\ Len(table.entries) = 1
    /\ table.size = U16 - 1

(***************************************************************************)
(* The kinds of the errors of the decoding operations.                     *)
(***************************************************************************)
\* the operations of Decoder and HeaderBlockDecoder that read a block
DecodingOps == {"enter_header_block", "decode_field"}

\* C27: every failure of a decoding operation has kind InvalidInput.
C27_DecodingFailuresInvalidInput ==
    (last.op \in DecodingOps /\ last.ret = "Err") =>
        ErrorKind_of(last.err) = "InvalidInput"

\* the part of C27 that holds: a failure of a decoding operation has kind
\* InvalidInput or Io, and never Other
C27_DecodingFailuresTwoKinds ==
    (last.op \in DecodingOps /\ last.ret = "Err") =>
        ErrorKind_of(last.err) \in {"InvalidInput", "Io"}

\* decode_field failed on a block whose octets are not all read, with kind
\* InvalidInput
C27_Reached ==
    /\ last.op = "decode_field"
    /\ last.ret = "Err"
    /\ ErrorKind_of(last.err) = "InvalidInput"
    /\ offset < Len(block)

\* a decoding operation failed with kind Io
C27_IoReached ==
    /\ last.op \in DecodingOps
    /\ last.ret = "Err"
    /\ ErrorKind_of(last.err) = "Io"

(***************************************************************************)
(* The symbols of the static table (SpecStaticEntry).                      *)
(***************************************************************************)
\* enum StaticEntry, in the order of its declaration
StaticEntryList ==
    <<"Authority", "Method", "MethodGet", "MethodPost",
      "Path", "PathRoot", "PathIndexHtml", "Scheme",
      "SchemeHttp", "SchemeHttps", "Status", "Status200",
      "Status204", "Status206", "Status304", "Status400",
      "Status404", "Status500", "AcceptCharset", "AcceptEncoding",
      "AcceptEncodingGzipDeflate", "AcceptLanguage", "AcceptRanges", "Accept",
      "AccessControlAllowOrigin", "Age", "Allow", "Authorization",
      "CacheControl", "ContentDisposition", "ContentEncoding", "ContentLanguage",
      "ContentLength", "ContentLocation", "ContentRange", "ContentType",
      "Cookie", "Date", "Etag", "Expect",
      "Expires", "From", "Host", "IfMatch",
      "IfModifiedSince", "IfNoneMatch", "IfRange", "IfUnmodifiedSince",
      "LastModified", "Link", "Location", "MaxForwards",
      "ProxyAuthenticate", "ProxyAuthorization", "Range", "Referer",
      "Refresh", "RetryAfter", "Server", "SetCookie",
      "StrictTransportSecurity", "TransferEncoding", "UserAgent", "Vary",
      "Via", "WwwAuthenticate">>

StaticEntries == {StaticEntryList[i] : i \in 1..Len(StaticEntryList)}

\* the position of f in the declaration of StaticEntry
StaticEntry_position(f) ==
    CHOOSE i \in 1..Len(StaticEntryList) : StaticEntryList[i] = f

\* Index::from(StaticEntry)
Index_from(f) ==
    CASE f = "Authority" -> 1
      [] f = "Method" -> 2
      [] f = "MethodGet" -> 2
      [] f = "MethodPost" -> 3
      [] f = "Path" -> 4
      [] f = "PathRoot" -> 4
      [] f = "PathIndexHtml" -> 5
      [] f = "Scheme" -> 6
      [] f = "SchemeHttp" -> 6
      [] f = "SchemeHttps" -> 7
      [] f = "Status" -> 8
      [] f = "Status200" -> 8
      [] f = "Status204" -> 9
      [] f = "Status206" -> 10
      [] f = "Status304" -> 11
      [] f = "Status400" -> 12
      [] f = "Status404" -> 13
      [] f = "Status500" -> 14
      [] f = "AcceptCharset" -> 15
      [] f = "AcceptEncoding" -> 16
      [] f = "AcceptEncodingGzipDeflate" -> 16
      [] f = "AcceptLanguage" -> 17
      [] f = "AcceptRanges" -> 18
      [] f = "Accept" -> 19
      [] f = "AccessControlAllowOrigin" -> 20
      [] f = "Age" -> 21
      [] f = "Allow" -> 22
      [] f = "Authorization" -> 23
      [] f = "CacheControl" -> 24
      [] f = "ContentDisposition" -> 25
      [] f = "ContentEncoding" -> 26
      [] f = "ContentLanguage" -> 27
      [] f = "ContentLength" -> 28
      [] f = "ContentLocation" -> 29
      [] f = "ContentRange" -> 30
      [] f = "ContentType" -> 31
      [] f = "Cookie" -> 32
      [] f = "Date" -> 33
      [] f = "Etag" -> 34
      [] f = "Expect" -> 35
      [] f = "Expires" -> 36
      [] f = "From" -> 37
      [] f = "Host" -> 38
      [] f = "IfMatch" -> 39
      [] f = "IfModifiedSince" -> 40
      [] f = "IfNoneMatch" -> 41
      [] f = "IfRange" -> 42
      [] f = "IfUnmodifiedSince" -> 43
      [] f = "LastModified" -> 44
      [] f = "Link" -> 45
      [] f = "Location" -> 46
      [] f = "MaxForwards" -> 47
      [] f = "ProxyAuthenticate" -> 48
      [] f = "ProxyAuthorization" -> 49
      [] f = "Range" -> 50
      [] f = "Referer" -> 51
      [] f = "Refresh" -> 52
      [] f = "RetryAfter" -> 53
      [] f = "Server" -> 54
      [] f = "SetCookie" -> 55
      [] f = "StrictTransportSecurity" -> 56
      [] f = "TransferEncoding" -> 57
      [] f = "UserAgent" -> 58
      [] f = "Vary" -> 59
      [] f = "Via" -> 60
      [] f = "WwwAuthenticate" -> 61

\* HeaderField::from(StaticEntry)
HeaderField_from(f) ==
    CASE f = "Authority" ->
             [name |-> <<58, 97, 117, 116, 104, 111, 114, 105, 116, 121>>,
              value |-> <<>>]  \* :authority 
      [] f = "Method" ->
             [name |-> <<58, 109, 101, 116, 104, 111, 100>>,
              value |-> <<71, 69, 84>>]  \* :method GET
      [] f = "MethodGet" ->
             [name |-> <<58, 109, 101, 116, 104, 111, 100>>,
              value |-> <<71, 69, 84>>]  \* :method GET
      [] f = "MethodPost" ->
             [name |-> <<58, 109, 101, 116, 104, 111, 100>>,
              value |-> <<80, 79, 83, 84>>]  \* :method POST
      [] f = "Path" ->
             [name |-> <<58, 112, 97, 116, 104>>,
              value |-> <<47>>]  \* :path /
      [] f = "PathRoot" ->
             [name |-> <<58, 112, 97, 116, 104>>,
              value |-> <<47>>]  \* :path /
      [] f = "PathIndexHtml" ->
             [name |-> <<58, 112, 97, 116, 104>>,
              value |-> <<47, 105, 110, 100, 101, 120, 46, 104, 116, 109, 108>>]  \* :path /index.html
      [] f = "Scheme" ->
             [name |-> <<58, 115, 99, 104, 101, 109, 101>>,
              value |-> <<104, 116, 116, 112>>]  \* :scheme http
      [] f = "SchemeHttp" ->
             [name |-> <<58, 115, 99, 104, 101, 109, 101>>,
              value |-> <<104, 116, 116, 112>>]  \* :scheme http
      [] f = "SchemeHttps" ->
             [name |-> <<58, 115, 99, 104, 101, 109, 101>>,
              value |-> <<104, 116, 116, 112, 115>>]  \* :scheme https
      [] f = "Status" ->
             [name |-> <<58, 115, 116, 97, 116, 117, 115>>,
              value |-> <<50, 48, 48>>]  \* :status 200
      [] f = "Status200" ->
             [name |-> <<58, 115, 116, 97, 116, 117, 115>>,
              value |-> <<50, 48, 48>>]  \* :status 200
      [] f = "Status204" ->
             [name |-> <<58, 115, 116, 97, 116, 117, 115>>,
              value |-> <<50, 48, 52>>]  \* :status 204
      [] f = "Status206" ->
             [name |-> <<58, 115, 116, 97, 116, 117, 115>>,
              value |-> <<50, 48, 54>>]  \* :status 206
      [] f = "Status304" ->
             [name |-> <<58, 115, 116, 97, 116, 117, 115>>,
              value |-> <<51, 48, 52>>]  \* :status 304
      [] f = "Status400" ->
             [name |-> <<58, 115, 116, 97, 116, 117, 115>>,
              value |-> <<52, 48, 48>>]  \* :status 400
      [] f = "Status404" ->
             [name |-> <<58, 115, 116, 97, 116, 117, 115>>,
              value |-> <<52, 48, 52>>]  \* :status 404
      [] f = "Status500" ->
             [name |-> <<58, 115, 116, 97, 116, 117, 115>>,
              value |-> <<53, 48, 48>>]  \* :status 500
      [] f = "AcceptCharset" ->
             [name |-> <<97, 99, 99, 101, 112, 116, 45, 99, 104, 97, 114, 115, 101, 116>>,
              value |-> <<>>]  \* accept-charset 
      [] f = "AcceptEncoding" ->
             [name |-> <<97, 99, 99, 101, 112, 116, 45, 101, 110, 99, 111, 100, 105, 110, 103>>,
              value |-> <<103, 122, 105, 112, 44, 32, 100, 101, 102, 108, 97, 116, 101>>]  \* accept-encoding gzip, deflate
      [] f = "AcceptEncodingGzipDeflate" ->
             [name |-> <<97, 99, 99, 101, 112, 116, 45, 101, 110, 99, 111, 100, 105, 110, 103>>,
              value |-> <<103, 122, 105, 112, 44, 32, 100, 101, 102, 108, 97, 116, 101>>]  \* accept-encoding gzip, deflate
      [] f = "AcceptLanguage" ->
             [name |-> <<97, 99, 99, 101, 112, 116, 45, 108, 97, 110, 103, 117, 97, 103, 101>>,
              value |-> <<>>]  \* accept-language 
      [] f = "AcceptRanges" ->
             [name |-> <<97, 99, 99, 101, 112, 116, 45, 114, 97, 110, 103, 101, 115>>,
              value |-> <<>>]  \* accept-ranges 
      [] f = "Accept" ->
             [name |-> <<97, 99, 99, 101, 112, 116>>,
              value |-> <<>>]  \* accept 
      [] f = "AccessControlAllowOrigin" ->
             [name |-> <<97, 99, 99, 101, 115, 115, 45, 99, 111, 110, 116, 114, 111, 108, 45, 97, 108, 108, 111, 119, 45, 111, 114, 105, 103, 105, 110>>,
              value |-> <<>>]  \* access-control-allow-origin 
      [] f = "Age" ->
             [name |-> <<97, 103, 101>>,
              value |-> <<>>]  \* age 
      [] f = "Allow" ->
             [name |-> <<97, 108, 108, 111, 119>>,
              value |-> <<>>]  \* allow 
      [] f = "Authorization" ->
             [name |-> <<97, 117, 116, 104, 111, 114, 105, 122, 97, 116, 105, 111, 110>>,
              value |-> <<>>]  \* authorization 
      [] f = "CacheControl" ->
             [name |-> <<99, 97, 99, 104, 101, 45, 99, 111, 110, 116, 114, 111, 108>>,
              value |-> <<>>]  \* cache-control 
      [] f = "ContentDisposition" ->
             [name |-> <<99, 111, 110, 116, 101, 110, 116, 45, 100, 105, 115, 112, 111, 115, 105, 116, 105, 111, 110>>,
              value |-> <<>>]  \* content-disposition 
      [] f = "ContentEncoding" ->
             [name |-> <<99, 111, 110, 116, 101, 110, 116, 45, 101, 110, 99, 111, 100, 105, 110, 103>>,
              value |-> <<>>]  \* content-encoding 
      [] f = "ContentLanguage" ->
             [name |-> <<99, 111, 110, 116, 101, 110, 116, 45, 108, 97, 110, 103, 117, 97, 103, 101>>,
              value |-> <<>>]  \* content-language 
      [] f = "ContentLength" ->
             [name |-> <<99, 111, 110, 116, 101, 110, 116, 45, 108, 101, 110, 103, 116, 104>>,
              value |-> <<>>]  \* content-length 
      [] f = "ContentLocation" ->
             [name |-> <<99, 111, 110, 116, 101, 110, 116, 45, 108, 111, 99, 97, 116, 105, 111, 110>>,
              value |-> <<>>]  \* content-location 
      [] f = "ContentRange" ->
             [name |-> <<99, 111, 110, 116, 101, 110, 116, 45, 114, 97, 110, 103, 101>>,
              value |-> <<>>]  \* content-range 
      [] f = "ContentType" ->
             [name |-> <<99, 111, 110, 116, 101, 110, 116, 45, 116, 121, 112, 101>>,
              value |-> <<>>]  \* content-type 
      [] f = "Cookie" ->
             [name |-> <<99, 111, 111, 107, 105, 101>>,
              value |-> <<>>]  \* cookie 
      [] f = "Date" ->
             [name |-> <<100, 97, 116, 101>>,
              value |-> <<>>]  \* date 
      [] f = "Etag" ->
             [name |-> <<101, 116, 97, 103>>,
              value |-> <<>>]  \* etag 
      [] f = "Expect" ->
             [name |-> <<101, 120, 112, 101, 99, 116>>,
              value |-> <<>>]  \* expect 
      [] f = "Expires" ->
             [name |-> <<101, 120, 112, 105, 114, 101, 115>>,
              value |-> <<>>]  \* expires 
      [] f = "From" ->
             [name |-> <<102, 114, 111, 109>>,
              value |-> <<>>]  \* from 
      [] f = "Host" ->
             [name |-> <<104, 111, 115, 116>>,
              value |-> <<>>]  \* host 
      [] f = "IfMatch" ->
             [name |-> <<105, 102, 45, 109, 97, 116, 99, 104>>,
              value |-> <<>>]  \* if-match 
      [] f = "IfModifiedSince" ->
             [name |-> <<105, 102, 45, 109, 111, 100, 105, 102, 105, 101, 100, 45, 115, 105, 110, 99, 101>>,
              value |-> <<>>]  \* if-modified-since 
      [] f = "IfNoneMatch" ->
             [name |-> <<105, 102, 45, 110, 111, 110, 101, 45, 109, 97, 116, 99, 104>>,
              value |-> <<>>]  \* if-none-match 
      [] f = "IfRange" ->
             [name |-> <<105, 102, 45, 114, 97, 110, 103, 101>>,
              value |-> <<>>]  \* if-range 
      [] f = "IfUnmodifiedSince" ->
             [name |-> <<105, 102, 45, 117, 110, 109, 111, 100, 105, 102, 105, 101, 100, 45, 115, 105, 110, 99, 101>>,
              value |-> <<>>]  \* if-unmodified-since 
      [] f = "LastModified" ->
             [name |-> <<108, 97, 115, 116, 45, 109, 111, 100, 105, 102, 105, 101, 100>>,
              value |-> <<>>]  \* last-modified 
      [] f = "Link" ->
             [name |-> <<108, 105, 110, 107>>,
              value |-> <<>>]  \* link 
      [] f = "Location" ->
             [name |-> <<108, 111, 99, 97, 116, 105, 111, 110>>,
              value |-> <<>>]  \* location 
      [] f = "MaxForwards" ->
             [name |-> <<109, 97, 120, 45, 102, 111, 114, 119, 97, 114, 100, 115>>,
              value |-> <<>>]  \* max-forwards 
      [] f = "ProxyAuthenticate" ->
             [name |-> <<112, 114, 111, 120, 121, 45, 97, 117, 116, 104, 101, 110, 116, 105, 99, 97, 116, 101>>,
              value |-> <<>>]  \* proxy-authenticate 
      [] f = "ProxyAuthorization" ->
             [name |-> <<112, 114, 111, 120, 121, 45, 97, 117, 116, 104, 111, 114, 105, 122, 97, 116, 105, 111, 110>>,
              value |-> <<>>]  \* proxy-authorization 
      [] f = "Range" ->
             [name |-> <<114, 97, 110, 103, 101>>,
              value |-> <<>>]  \* range 
      [] f = "Referer" ->
             [name |-> <<114, 101, 102, 101, 114, 101, 114>>,
              value |-> <<>>]  \* referer 
      [] f = "Refresh" ->
             [name |-> <<114, 101, 102, 114, 101, 115, 104>>,
              value |-> <<>>]  \* refresh 
      [] f = "RetryAfter" ->
             [name |-> <<114, 101, 116, 114, 121, 45, 97, 102, 116, 101, 114>>,
              value |-> <<>>]  \* retry-after 
      [] f = "Server" ->
             [name |-> <<115, 101, 114, 118, 101, 114>>,
              value |-> <<>>]  \* server 
      [] f = "SetCookie" ->
             [name |-> <<115, 101, 116, 45, 99, 111, 111, 107, 105, 101>>,
              value |-> <<>>]  \* set-cookie 
      [] f = "StrictTransportSecurity" ->
             [name |-> <<115, 116, 114, 105, 99, 116, 45, 116, 114, 97, 110, 115, 112, 111, 114, 116, 45, 115, 101, 99, 117, 114, 105, 116, 121>>,
              value |-> <<>>]  \* strict-transport-security 
      [] f = "TransferEncoding" ->
             [name |-> <<116, 114, 97, 110, 115, 102, 101, 114, 45, 101, 110, 99, 111, 100, 105, 110, 103>>,
              value |-> <<>>]  \* transfer-encoding 
      [] f = "UserAgent" ->
             [name |-> <<117, 115, 101, 114, 45, 97, 103, 101, 110, 116>>,
              value |-> <<>>]  \* user-agent 
      [] f = "Vary" ->
             [name |-> <<118, 97, 114, 121>>,
              value |-> <<>>]  \* vary 
      [] f = "Via" ->
             [name |-> <<118, 105, 97>>,
              value |-> <<>>]  \* via 
      [] f = "WwwAuthenticate" ->
             [name |-> <<119, 119, 119, 45, 97, 117, 116, 104, 101, 110, 116, 105, 99, 97, 116, 101>>,
              value |-> <<>>]  \* www-authenticate 

\* StaticEntry::from_index: the symbol of an index, "" for None
from_index(index) ==
    CASE index = 1 -> "Authority"
      [] index = 2 -> "MethodGet"
      [] index = 3 -> "MethodPost"
      [] index = 4 -> "PathRoot"
      [] index = 5 -> "PathIndexHtml"
      [] index = 6 -> "SchemeHttp"
      [] index = 7 -> "SchemeHttps"
      [] index = 8 -> "Status200"
      [] index = 9 -> "Status204"
      [] index = 10 -> "Status206"
      [] index = 11 -> "Status304"
      [] index = 12 -> "Status400"
      [] index = 13 -> "Status404"
      [] index = 14 -> "Status500"
      [] index = 15 -> "AcceptCharset"
      [] index = 16 -> "AcceptEncodingGzipDeflate"
      [] index = 17 -> "AcceptLanguage"
      [] index = 18 -> "AcceptRanges"
      [] index = 19 -> "Accept"
      [] index = 20 -> "AccessControlAllowOrigin"
      [] index = 21 -> "Age"
      [] index = 22 -> "Allow"
      [] index = 23 -> "Authorization"
      [] index = 24 -> "CacheControl"
      [] index = 25 -> "ContentDisposition"
      [] index = 26 -> "ContentEncoding"
      [] index = 27 -> "ContentLanguage"
      [] index = 28 -> "ContentLength"
      [] index = 29 -> "ContentLocation"
      [] index = 30 -> "ContentRange"
      [] index = 31 -> "ContentType"
      [] index = 32 -> "Cookie"
      [] index = 33 -> "Date"
      [] index = 34 -> "Etag"
      [] index = 35 -> "Expect"
      [] index = 36 -> "Expires"
      [] index = 37 -> "From"
      [] index = 38 -> "Host"
      [] index = 39 -> "IfMatch"
      [] index = 40 -> "IfModifiedSince"
      [] index = 41 -> "IfNoneMatch"
      [] index = 42 -> "IfRange"
      [] index = 43 -> "IfUnmodifiedSince"
      [] index = 44 -> "LastModified"
      [] index = 45 -> "Link"
      [] index = 46 -> "Location"
      [] index = 47 -> "MaxForwards"
      [] index = 48 -> "ProxyAuthenticate"
      [] index = 49 -> "ProxyAuthorization"
      [] index = 50 -> "Range"
      [] index = 51 -> "Referer"
      [] index = 52 -> "Refresh"
      [] index = 53 -> "RetryAfter"
      [] index = 54 -> "Server"
      [] index = 55 -> "SetCookie"
      [] index = 56 -> "StrictTransportSecurity"
      [] index = 57 -> "TransferEncoding"
      [] index = 58 -> "UserAgent"
      [] index = 59 -> "Vary"
      [] index = 60 -> "Via"
      [] index = 61 -> "WwwAuthenticate"
      [] OTHER -> ""
\* the state after Table::get(Index::from(f)) returned g
GetStaticEntryReturns(f, g) ==
    /\ panicked' = g.panic
    /\ last' = [NoLast EXCEPT !.op = "get", !.ret = g.ret,
                    !.err = IF g.ret = "Err" THEN "Failed" ELSE "",
                    !.name = g.field.name, !.value = g.field.value,
                    !.rep = f, !.arg = Index_from(f)]

\* Table::get(Index::from(f)) for a symbol f of the static table
GetStaticEntry(f) ==
    /\ panicked = ""
    /\ GetStaticEntryReturns(f, Table_get(table, Index_from(f)))
    /\ UNCHANGED <<table, decoderVars, encoderVars, build>>

\* the fields pushed: static fields of 42 and of 46 octets, so that a dynamic
\* entry has the name of a static one
PushedEntries == {"Method", "PathIndexHtml"}

NextStaticEntry ==
    \/ \E f \in PushedEntries :
           Push(HeaderField_from(f).name, HeaderField_from(f).value)
    \/ \E s \in CodecLimits : SetSizeSoftLimit(s)
    \/ \E h \in CodecLimits : SetSizeHardLimit(h)
    \/ \E f \in StaticEntries : GetStaticEntry(f)

SpecStaticEntry == InitTable /\ [][NextStaticEntry]_vars

\* C28: whatever the dynamic table holds, Table::get(i) returns for every i
\* of 1..61 the one static field of i, and for every symbol f of StaticEntry,
\* the aliases included, the entry from_index gives for Index::from(f) has
\* the name and the value of f, which is what Table::get returns for it.
C28_StaticEntriesStable ==
    /\ \A i \in 1..StaticEntry_entries_count :
           /\ from_index(i) # ""
           /\ Table_get(table, i) =
                  [ret |-> "Ok", field |-> HeaderField_from(from_index(i)), panic |-> ""]
    /\ \A f \in StaticEntries :
           /\ from_index(Index_from(f)) # ""
           /\ HeaderField_from(from_index(Index_from(f))) = HeaderField_from(f)
    /\ (last.op = "get" /\ last.rep \in StaticEntries) =>
           /\ last.ret = "Ok"
           /\ HeaderField_from_cow(last.name, last.value) = HeaderField_from(last.rep)

\* the alias Method was looked up in a table that holds a dynamic entry and
\* has evicted one
C28_Reached ==
    /\ last.op = "get"
    /\ last.rep = "Method"
    /\ last.arg = 2
    /\ last.value = <<71, 69, 84>>
    /\ Len(table.entries) >= 1
    /\ table.size_soft_limit < table.size_hard_limit

(***************************************************************************)
(* The expectations and the subtractions of DynamicTable.                  *)
(***************************************************************************)
\* C29: no sequence of push, set_size_soft_limit and set_size_hard_limit
\* reaches the expect of evict_exceeded_entries on an empty queue or a
\* subtraction below zero.
C29_TableNeverPanics == panicked \notin {"expect", "overflow"}

\* the part of C29 that holds: an operation on a table whose size is the sum
\* of its entry sizes reaches neither
C29_TableNeverPanicsConsistent ==
    [][(table.size = SumEntrySizes(table.entries)) => panicked' = ""]_vars

\* in a release build the subtraction size - evicted.entry_size is not
\* reached below zero: the expect fails first
C29_ReleaseReachesExpect ==
    (build = "release" /\ panicked # "") => panicked = "expect"

\* an eviction has removed entries of a table whose size is the sum of its
\* entry sizes
C29_Reached ==
    /\ last.op \in {"push", "set_size_soft_limit", "set_size_hard_limit"}
    /\ last.evicted >= 1
    /\ table.entries # <<>>
    /\ table.size = SumEntrySizes(table.entries)
    /\ panicked = ""

(***************************************************************************)
(* An encoder whose limits change between its blocks, and the decoder of   *)
(* its blocks (SpecPairLimits).                                            *)
(***************************************************************************)
\* the limits the encoder is set to between two blocks
PairLimits == {0, 40, 80}

NextPairLimits ==
    \/ phase = "idle" /\ (\E h \in PairLimits : EncoderSetHardLimit(h))
    \/ phase = "idle" /\ (\E s \in PairLimits : EncoderSetSoftLimit(s))
    \/ NextPair

SpecPairLimits == InitPair /\ [][NextPairLimits]_vars

\* the first octet of the block is a dynamic table size update (001xxxxx),
\* which is what the encoder writes first after its soft limit changed
StartsWithSizeUpdate(octets) ==
    octets # <<>> /\ octets[1] \in 32..63

\* C30: after a block that follows a change of the encoder's soft limit and
\* that the decoder accepted, the decoder's soft limit is the encoder's and
\* the two dynamic tables hold the same entries.
C30_DecoderFollowsLimits ==
    (last.op = "decode_block" /\ StartsWithSizeUpdate(block) /\ last.ret = "Ok") =>
        /\ table.size_soft_limit = etable.size_soft_limit
        /\ table.entries = etable.entries

\* a block that starts with a size update and holds a field was decoded
C30_Reached ==
    /\ last.op = "decode_block"
    /\ StartsWithSizeUpdate(block)
    /\ last.ret = "Ok"
    /\ Len(last.yielded) = 1

(***************************************************************************)
(* An encoder whose sink is a slice of SinkCapacity octets, which refuses  *)
(* the writes beyond its end (SpecEncoderSink).                            *)
(***************************************************************************)
SinkCapacity == 4

\* Write::write_all on a slice that holds snk already: the octets that fit
\* are taken, and the write fails when not all of them fit
write_all(snk, octets) ==
    IF Len(snk) + Len(octets) <= SinkCapacity
    THEN [ret |-> "Ok", err |-> "", sink |-> snk \o octets]
    ELSE [ret |-> "Err", err |-> "Io",
          sink |-> SubSeq(snk \o octets, 1, SinkCapacity)]

\* encode_field that rolls the table back when the write is refused
encode_field_written_rolled_back(t, r, w) ==
    IF r.ret # "Ok"
    THEN [ret |-> r.ret, err |-> r.err, t |-> r.t, sink |-> w.sink, panic |-> r.panic]
    ELSE [ret |-> w.ret, err |-> w.err,
          t |-> IF w.ret = "Ok" THEN r.t ELSE t, sink |-> w.sink, panic |-> ""]

\* HeaderBlockEncoder::encode_field from field.encode(&mut self.block) on: r
\* is what the steps before it came to, w the outcome of the write
encode_field_written(t, r, w) ==
    IF r.ret # "Ok"
    THEN [ret |-> r.ret, err |-> r.err, t |-> r.t, sink |-> w.sink, panic |-> r.panic]
    ELSE [ret |-> w.ret, err |-> w.err, t |-> r.t, sink |-> w.sink, panic |-> ""]

\* HeaderBlockEncoder::encode_field on the sink snk
encode_field_into_written(t, snk, r) ==
    encode_field_written(t, r, write_all(snk, r.written))

encode_field_into(t, snk, rep) == encode_field_into_written(t, snk, encode_field(t, rep))

\* the state after an encode_field of rep that returned r
EncodeFieldIntoReturns(rep, r) ==
    /\ etable' = r.t
    /\ panicked' = r.panic
    /\ sink' = r.sink
    /\ last' = [NoLast EXCEPT !.op = "encode_field", !.ret = r.ret, !.err = r.err,
                    !.name = rep.name.octets, !.value = rep.value.octets,
                    !.arg = rep.index,
                    !.evicted = Evicted(etable, r.t,
                                        Len(r.t.entries) > 0
                                          /\ rep.form = "WithIndexing"
                                          /\ r.t # etable),
                    !.rep = rep.kind, !.form = rep.form]

\* HeaderBlockEncoder::encode_field
EncodeFieldInto(rep) ==
    /\ panicked = ""
    /\ ephase = "block"
    /\ EncodeFieldIntoReturns(rep, encode_field_into(etable, sink, rep))
    /\ UNCHANGED <<table, decoderVars, updates, ephase, build>>

NextEncoderSink ==
    \/ EncoderEnterHeaderBlock
    \/ \E rep \in EncoderFields : EncodeFieldInto(rep)
    \/ Finish

SpecEncoderSink == InitEncoder /\ [][NextEncoderSink]_vars

\* the name a literal of encode_field stands for in the table t
LastName(t) ==
    IF last'.arg = 0 THEN last'.name ELSE Table_get(t, last'.arg).field.name

\* C31: when encode_field of a literal with incremental indexing fails
\* because the sink refuses the write, the encoder's table is the table after
\* the push of the field, evictions included; the entries that earlier fields
\* of the block inserted are still held after a later field has failed, as
\* far as that push left them.
C31_NoRollBack ==
    [][(last'.op = "encode_field" /\ last'.ret = "Err") =>
           IF last'.err = "Io" /\ last'.form = "WithIndexing"
           THEN etable' = DynamicTable_push(etable, LastName(etable), last'.value).t
           ELSE etable' = etable]_vars

\* a refused write left the entry of the failed field in the table, in the
\* place of an entry that an earlier field of the block had inserted
C31_Reached ==
    /\ last.op = "encode_field"
    /\ last.ret = "Err"
    /\ last.err = "Io"
    /\ last.form = "WithIndexing"
    /\ last.evicted >= 1
    /\ etable.entries # <<>>
    /\ etable.entries[1] = HeaderField_from_cow(<<>>, last.value)
    /\ Len(sink) = SinkCapacity

\* a refused write of a field without indexing left the entry of an earlier
\* field of the block
C31_EarlierReached ==
    /\ last.op = "encode_field"
    /\ last.ret = "Err"
    /\ last.err = "Io"
    /\ last.form # "WithIndexing"
    /\ etable.entries # <<>>
    /\ sink # <<>>

(***************************************************************************)
(* A decoder given blocks in which a field that fails follows fields that  *)
(* are decoded (SpecDecoderFailures).                                      *)
(***************************************************************************)
\* fields that are decoded: literals with incremental indexing of the entry
\* sizes 32 and 42, and one that names its header by the index 62
DecodedItems ==
    { <<>>,
      <<64, 0, 0>>,         \* 40 00 00: with indexing, name "", value ""
      <<65, 0>>,            \* 41 00: with indexing, name of index 1, value ""
      <<126, 1, 97>>,       \* 7e 01 61: with indexing, name of index 62, value "a"
      <<65, 129, 7>> }      \* 41 81 07: with indexing, name of index 1, value "0" Huffman-coded

\* fields that decode_field may fail on
FailingItems ==
    { <<128>>,              \* 80: indexed, index 0
      <<191>>,              \* bf: indexed, index 63
      <<127, 1, 0>>,        \* 7f 01 00: with indexing, name of index 64, value ""
      <<126, 1, 97>>,       \* 7e 01 61: with indexing, name of index 62, value "a"
      <<64, 1>>,            \* 40 01: with indexing, cut after the name length
      <<64, 0, 2, 97>>,     \* 40 00 02 61: with indexing, value cut
      <<65, 129, 0>>,       \* 41 81 00: with indexing, name of index 1, value with invalid padding
      <<64, 129, 0, 0>>,    \* 40 81 00 00: with indexing, name with invalid padding
      <<0, 129, 0, 0>>,     \* 00 81 00 00: without indexing, name with invalid padding
      <<15, 48, 0>> }       \* 0f 30 00: without indexing, name of index 63, value ""

\* the blocks handed to Decoder::enter_header_block
FailingBlocks == {d \o f : d \in DecodedItems, f \in FailingItems}

NextDecoderFailures ==
    \/ \E b \in FailingBlocks : EnterHeaderBlock(b)
    \/ DecodeField
    \/ DropHeaderBlock

SpecDecoderFailures == InitDecoder /\ [][NextDecoderFailures]_vars

\* C32: a decode_field that fails inserts nothing and evicts nothing: the
\* dynamic table after the call is the table before it.
C32_FailureLeavesTable ==
    [][(last'.op = "decode_field" /\ last'.ret = "Err") => table' = table]_vars

\* decode_field failed on the Huffman-coded value of a literal with
\* incremental indexing whose insertion would have evicted the entry held
C32_Reached ==
    /\ last.op = "decode_field"
    /\ last.ret = "Err"
    /\ last.err = "Failed"
    /\ block = <<65, 0, 65, 129, 0>>
    /\ table.entries # <<>>
    /\ table.size_soft_limit = 80

\* decode_field failed on a name index out of range
C32_IndexReached ==
    /\ last.op = "decode_field"
    /\ last.ret = "Err"
    /\ block = <<64, 0, 0, 127, 1, 0>>
    /\ table.entries # <<>>

(***************************************************************************)
(* Literals with incremental indexing that name their header by the index  *)
(* of a dynamic entry, in a decoder or an encoder (SpecNameByIndex).       *)
(***************************************************************************)
\* the literals handed to encode_field: two that are inserted under names of
\* their own, and three that take the name of index 62 or 63 with values of
\* 1, 8 and 40 octets
NameFields ==
    {Rep("Literal", "WithIndexing", 0, RawString(ByteStr(110, 1)), RawString(<<>>)),
     Rep("Literal", "WithIndexing", 0, RawString(ByteStr(109, 2)), RawString(<<>>))}
    \cup {Rep("Literal", "WithIndexing", i, NoString, RawString(ByteStr(118, n))) :
              i \in {62, 63}, n \in {1, 8, 40}}

\* the blocks handed to Decoder::enter_header_block: a literal with a name
\* of its own, alone or followed by another of the literals
NameBlocks ==
    {RawHeaderField_encode(rep) : rep \in {f \in NameFields : f.index = 0}}
    \cup {RawHeaderField_encode(a) \o RawHeaderField_encode(b) :
              a \in {f \in NameFields : f.index = 0}, b \in NameFields}

NextNameByIndex ==
    \/ \E b \in NameBlocks : EnterHeaderBlock(b)
    \/ DecodeField
    \/ DropHeaderBlock
    \/ EncoderEnterHeaderBlock
    \/ \E rep \in NameFields : EncodeField(rep)
    \/ Finish

SpecNameByIndex == InitCodec /\ [][NextNameByIndex]_vars

\* the entry at the front of t is the field of the name and the value, or t
\* holds no entry: the field was too large and the table was cleared
InsertedOrCleared(t, name, value) ==
    t.entries # <<>> => t.entries[1] = HeaderField_from_cow(name, value)

\* C33: a literal with incremental indexing that names its header by the
\* index of a dynamic entry is returned and inserted under the name that the
\* index had before the push, whether or not the push evicted the entry of
\* the index or cleared the table, in the decoder and in the encoder.
C33_NameResolvedBeforePush ==
    [][/\ (/\ last'.op = "decode_field"
           /\ last'.form = "WithIndexing"
           /\ last'.arg >= Index_dynamic_table_offset
           /\ last'.ret = "Some") =>
              /\ last'.name = Table_get(table, last'.arg).field.name
              /\ InsertedOrCleared(table', last'.name, last'.value)
       /\ (/\ last'.op = "encode_field"
           /\ last'.form = "WithIndexing"
           /\ last'.arg >= Index_dynamic_table_offset
           /\ last'.ret = "Ok") =>
              InsertedOrCleared(etable', Table_get(etable, last'.arg).field.name,
                                last'.value)]_vars

\* decode_field inserted a literal under the name "n" of the entry of index
\* 63, which the insertion evicted
C33_Reached ==
    /\ last.op = "decode_field"
    /\ last.form = "WithIndexing"
    /\ last.arg = 63
    /\ last.ret = "Some"
    /\ last.evicted = 1
    /\ last.name = <<110>>
    /\ table.entries = <<HeaderField_from_cow(<<110>>, ByteStr(118, 8)),
                         HeaderField_from_cow(<<109, 109>>, <<>>)>>

\* decode_field returned a literal under the name of index 62 that was too
\* large for the table, which it cleared
C33_ClearedReached ==
    /\ last.op = "decode_field"
    /\ last.form = "WithIndexing"
    /\ last.arg = 62
    /\ last.ret = "Some"
    /\ last.name = <<109, 109>>
    /\ Len(last.value) = 40
    /\ table.entries = <<>>
    /\ table.size_soft_limit = 40

\* encode_field inserted a literal under the name of the entry of index 62,
\* which the insertion evicted
C33_EncoderReached ==
    /\ last.op = "encode_field"
    /\ last.form = "WithIndexing"
    /\ last.arg = 62
    /\ last.ret = "Ok"
    /\ last.evicted = 1
    /\ Len(etable.entries) = 1
    /\ etable.entries[1].name = <<110>>
    /\ Len(etable.entries[1].value) = 8

(***************************************************************************)
(* Evictions are minimal.                                                  *)
(***************************************************************************)
\* the k oldest entries of t
Oldest(t, k) == SubSeq(t.entries, Len(t.entries) - k + 1, Len(t.entries))

\* k evictions from t for a new entry of new_entry_size under the limit are
\* the fewest, the size of t being the sum of its entry sizes
FewestEvictions(t, k, new_entry_size, limit) ==
    /\ k > 0 => SumEntrySizes(WithoutOldest(t.entries, k - 1)) + new_entry_size > limit
    /\ SumEntrySizes(t.entries) + new_entry_size <= limit => k = 0

\* k evictions from t are the fewest, the size of t being the one recorded
FewestEvictionsRecorded(t, k, new_entry_size, limit) ==
    /\ k > 0 => t.size - SumEntrySizes(Oldest(t, k - 1)) + new_entry_size > limit
    /\ t.size + new_entry_size <= limit => k = 0

\* C34: a push that inserts and a set_size_soft_limit evict the fewest
\* oldest entries: with one eviction less the entries left, and the new
\* entry of a push, exceed the soft limit, and nothing is evicted when they
\* fit.
C34_FewestEvictions ==
    [][/\ (last'.op = "push" /\ last'.ret = "None") =>
              FewestEvictions(table, last'.evicted,
                              Len(last'.name) + Len(last'.value) + 32,
                              table.size_soft_limit)
       /\ (last'.op = "set_size_soft_limit" /\ last'.ret = "Ok") =>
              FewestEvictions(table, last'.evicted, 0, last'.arg)]_vars

\* the part of C34 that holds: the evictions are the fewest for the size
\* the table records
C34_FewestEvictionsRecorded ==
    [][/\ (last'.op = "push" /\ last'.ret = "None") =>
              FewestEvictionsRecorded(table, last'.evicted,
                                      Len(last'.name) + Len(last'.value) + 32,
                                      table.size_soft_limit)
       /\ (last'.op = "set_size_soft_limit" /\ last'.ret = "Ok") =>
              FewestEvictionsRecorded(table, last'.evicted, 0, last'.arg)]_vars

\* C34 for the tables whose size is the sum of their entry sizes
C34_FewestEvictionsConsistent ==
    [][(table.size = SumEntrySizes(table.entries)) =>
          /\ (last'.op = "push" /\ last'.ret = "None") =>
                 FewestEvictions(table, last'.evicted,
                                 Len(last'.name) + Len(last'.value) + 32,
                                 table.size_soft_limit)
          /\ (last'.op = "set_size_soft_limit" /\ last'.ret = "Ok") =>
                 FewestEvictions(table, last'.evicted, 0, last'.arg)]_vars

\* a push evicted two entries of a table that holds one more
C34_Reached ==
    /\ last.op = "push"
    /\ last.ret = "None"
    /\ last.evicted = 2
    /\ Len(table.entries) >= 2
    /\ table.size = SumEntrySizes(table.entries)

(***************************************************************************)
(* A decoder whose caller reads fields with decode_raw_field as well       *)
(* (SpecRawDecoder).                                                       *)
(***************************************************************************)
\* decode_raw_field handling the field it read as decode_field does
HeaderBlockDecoder_decode_raw_field_handled(t, octets, off) ==
    [t |-> decode_field(t, octets, off).res.t, raw |-> decode_raw_field(octets, off)]

\* HeaderBlockDecoder::decode_raw_field as a method of the block decoder,
\* which holds the table t: the table it leaves and what it returns
HeaderBlockDecoder_decode_raw_field(t, octets, off) ==
    [t |-> t, raw |-> decode_raw_field(octets, off)]

\* the state after a decode_raw_field that returned r
DecodeRawFieldReturns(r) ==
    /\ table' = r.t
    /\ offset' = r.raw.off
    /\ last' = [NoLast EXCEPT !.op = "decode_raw_field", !.ret = r.raw.ret,
                    !.err = r.raw.err,
                    !.name = r.raw.rep.name.octets, !.value = r.raw.rep.value.octets,
                    !.arg = r.raw.rep.index,
                    !.rep = r.raw.rep.kind, !.form = r.raw.rep.form]

\* HeaderBlockDecoder::decode_raw_field
DecodeRawField ==
    /\ panicked = ""
    /\ phase = "block"
    /\ DecodeRawFieldReturns(HeaderBlockDecoder_decode_raw_field(table, block, offset))
    /\ UNCHANGED <<block, phase, panicked, encoderVars, build>>

\* the blocks handed to Decoder::enter_header_block: up to two literals with
\* incremental indexing
RawBlocks == {a \o b : a \in DecodedItems, b \in DecodedItems}

NextRawDecoder ==
    \/ \E b \in RawBlocks : EnterHeaderBlock(b)
    \/ DecodeRawField
    \/ DecodeField
    \/ DropHeaderBlock

SpecRawDecoder == InitDecoder /\ [][NextRawDecoder]_vars

\* C35: decode_raw_field leaves the dynamic table as it is and moves the
\* reader alone: a literal with incremental indexing read through it inserts
\* nothing.
C35_RawFieldLeavesTable ==
    [][last'.op = "decode_raw_field" =>
           /\ table' = table
           /\ offset' >= offset
           /\ UNCHANGED <<block, phase>>]_vars

\* decode_raw_field returned the second of two literals with incremental
\* indexing of a block, and the table holds no entry
C35_Reached ==
    /\ last.op = "decode_raw_field"
    /\ last.ret = "Ok"
    /\ last.form = "WithIndexing"
    /\ block = <<64, 0, 0, 65, 0>>
    /\ offset = Len(block)
    /\ table.entries = <<>>
    /\ table.size_soft_limit = 80

(***************************************************************************)
(* The byte reader with the width of usize (SpecReader).  SliceReader of   *)
(* io.rs and Reader of field.rs have the same methods with the same        *)
(* bodies.  A usize of the upper half of its range is held as its two's    *)
(* complement, so usize::MAX is -1 and a wrapping sum is the sum.          *)
(***************************************************************************)
UsizeMax == -1

\* offset + size is beyond usize::MAX, offset being a length of the model
usize_overflows(off, size) == size < 0 /\ off + size >= 0

\* SliceReader::consume, with the sum in usize
SliceReader_consume(octets, off, size) ==
    IF usize_overflows(off, size)
    THEN IF build = "debug"
         THEN [off |-> off, panic |-> "overflow"]
         ELSE [off |-> IF off + size < Len(octets) THEN off + size ELSE Len(octets),
               panic |-> ""]
    ELSE IF size < 0
    THEN [off |-> Len(octets), panic |-> ""]
    ELSE [off |-> consume(octets, off, size), panic |-> ""]

\* SliceReader::read_slice, with the sum in usize: a sum that wraps is below
\* the offset, passes the assertion and fails the slicing
SliceReader_read_slice(octets, off, size) ==
    IF usize_overflows(off, size)
    THEN [ret |-> "panic", slice |-> <<>>, off |-> off,
          panic |-> IF build = "debug" THEN "overflow" ELSE "slice index"]
    ELSE IF size < 0
    THEN [ret |-> "Err", slice |-> <<>>, off |-> off, panic |-> ""]
    ELSE [ret |-> read_slice(octets, off, size).ret,
          slice |-> read_slice(octets, off, size).slice,
          off |-> read_slice(octets, off, size).off, panic |-> ""]

\* Read::read into a buffer of len octets: the octets that remain, up to len
SliceReader_read(octets, off, len) ==
    IF Len(octets) - off < len
    THEN [size |-> Len(octets) - off, off |-> Len(octets)]
    ELSE [size |-> len, off |-> off + len]

\* the slices a reader is made of, and the sizes its methods are given
ReaderSlices == {<<>>, <<7>>, <<7, 8>>, <<7, 8, 9>>}
ReaderSizes == {0, 1, 2, 3, 4, UsizeMax}
BufferLens == {0, 1, 2, 4}

\* what the reader did last
ReaderLast(op, ret, err, arg, got) ==
    [op |-> op, ret |-> ret, err |-> err, arg |-> arg, got |-> got]

\* SliceReader::new
ReaderNew(octets) ==
    /\ panicked = ""
    /\ block' = octets
    /\ offset' = 0
    /\ last' = ReaderLast("new", "Ok", "", Len(octets), <<>>)
    /\ UNCHANGED <<table, etable, phase, encoderVars, panicked, build>>

\* the state after a method that returned r and left the offset off
ReaderReturns(op, arg, r, off, panic) ==
    /\ offset' = off
    /\ panicked' = panic
    /\ last' = ReaderLast(op, r.ret, r.err, arg, r.got)
    /\ UNCHANGED <<table, etable, phase, block, encoderVars, build>>

\* SliceReader::eos
ReaderEos ==
    /\ panicked = ""
    /\ ReaderReturns("eos", 0,
                     [ret |-> IF eos(block, offset) THEN "true" ELSE "false",
                      err |-> "", got |-> <<>>],
                     offset, "")

\* the state after a peek_u8 that returned p
ReaderPeekU8Returns(p) ==
    ReaderReturns("peek_u8", 0,
                  [ret |-> p.ret, err |-> IF p.ret = "Err" THEN "Io" ELSE "",
                   got |-> IF p.ret = "Ok" THEN <<p.octet>> ELSE <<>>],
                  p.off, "")

\* SliceReader::peek_u8
ReaderPeekU8 ==
    /\ panicked = ""
    /\ ReaderPeekU8Returns(peek_u8(block, offset))

\* the state after a consume that came to c
ReaderConsumeReturns(size, c) ==
    ReaderReturns("consume", size,
                  [ret |-> IF c.panic = "" THEN "Ok" ELSE "panic", err |-> "",
                   got |-> <<>>],
                  c.off, c.panic)

\* SliceReader::consume
ReaderConsume(size) ==
    /\ panicked = ""
    /\ ReaderConsumeReturns(size, SliceReader_consume(block, offset, size))

\* the state after a read_slice that returned s
ReaderReadSliceReturns(size, s) ==
    ReaderReturns("read_slice", size,
                  [ret |-> s.ret, err |-> IF s.ret = "Err" THEN "Failed" ELSE "",
                   got |-> s.slice],
                  s.off, s.panic)

\* SliceReader::read_slice
ReaderReadSlice(size) ==
    /\ panicked = ""
    /\ ReaderReadSliceReturns(size, SliceReader_read_slice(block, offset, size))

\* the state after a read that returned r
ReaderReadReturns(len, r) ==
    ReaderReturns("read", len,
                  [ret |-> "Ok", err |-> "", got |-> SubSeq(block, offset + 1, r.off)],
                  r.off, "")

\* Read::read
ReaderRead(len) ==
    /\ panicked = ""
    /\ ReaderReadReturns(len, SliceReader_read(block, offset, len))

NextReader ==
    \/ \E octets \in ReaderSlices : ReaderNew(octets)
    \/ ReaderEos
    \/ ReaderPeekU8
    \/ \E size \in ReaderSizes : ReaderConsume(size)
    \/ \E size \in ReaderSizes : ReaderReadSlice(size)
    \/ \E len \in BufferLens : ReaderRead(len)

SpecReader == InitTable /\ [][NextReader]_vars

\* the octets between the offset and the end of the slice
Remaining == Len(block) - offset

\* size is above the octets that remain
AboveRemaining(size) == size < 0 \/ size > Remaining

\* what C36 says of a step of the reader with a size among sizes
ReaderStep(sizes) ==
    /\ last'.op = "peek_u8" => offset' = offset
    /\ (last'.op = "consume" /\ last'.arg \in sizes) =>
           /\ last'.ret = "Ok"
           /\ offset' = offset + (IF AboveRemaining(last'.arg) THEN Remaining
                                  ELSE last'.arg)
    /\ (last'.op = "read_slice" /\ last'.arg \in sizes /\ AboveRemaining(last'.arg)) =>
           /\ last'.ret = "Err"
           /\ offset' = offset
    /\ (last'.op = "read_slice" /\ last'.arg \in sizes /\ ~AboveRemaining(last'.arg)) =>
           /\ last'.ret = "Ok"
           /\ last'.got = SubSeq(block, offset + 1, offset + last'.arg)
           /\ offset' = offset + last'.arg
    /\ last'.op = "read" =>
           /\ Len(last'.got) = (IF last'.arg > Remaining THEN Remaining ELSE last'.arg)
           /\ offset' = offset + Len(last'.got)
    /\ last'.op = "eos" =>
           /\ offset' = offset
           /\ last'.ret = "true" <=> offset = Len(block)

\* C36: 0 <= offset <= length after every sequence of peek_u8, consume,
\* read_slice and read; peek_u8 leaves the offset, whether it returns the
\* octet or fails at the end; consume(n) advances by min(n, remaining);
\* read_slice(n) with n above the octets that remain fails and leaves the
\* offset; eos is true exactly when offset = length.
C36_ReaderWithinSlice ==
    /\ [](0 <= offset /\ offset <= Len(block))
    /\ [][ReaderStep(ReaderSizes)]_vars

\* C36 for the sizes whose sum with the offset is within usize
C36_ReaderWithinSliceNoOverflow ==
    /\ [](0 <= offset /\ offset <= Len(block))
    /\ [][ReaderStep({size \in ReaderSizes : ~usize_overflows(offset, size)})]_vars

\* consume was given more than the octets that remained, behind a read
\* that had moved the offset, and stopped at the end of the slice
C36_Reached ==
    /\ last.op = "consume"
    /\ last.arg = 4
    /\ last.ret = "Ok"
    /\ block = <<7, 8, 9>>
    /\ offset = 3

\* peek_u8 failed at the end of a slice that holds octets
C36_PeekReached ==
    /\ last.op = "peek_u8"
    /\ last.ret = "Err"
    /\ offset = Len(block)
    /\ block # <<>>

(***************************************************************************)
(* The loop of Decoder::enter_header_block one iteration at a time, and    *)
(* the calls of decode_field that follow it (SpecDecoderLoop).  phase is   *)
(* "entering" while the loop runs.                                         *)
(***************************************************************************)
\* one iteration of the loop of Decoder::enter_header_block: the test on the
\* octet peeked and, when it passes, the size update and the soft limit;
\* ret is "Again" when the loop goes on to the next test
enter_header_block_iteration(t, octets, off) ==
    LET p == peek_u8(octets, off)
    IN  IF p.ret = "Err"
        THEN [ret |-> "Err", err |-> "Io", t |-> t, off |-> off, panic |-> ""]
        ELSE IF is_leading_update(p.octet)
        THEN LET update == DynamicTableSizeUpdate_decode(octets, off)
             IN  IF update.ret = "Err"
                 THEN [ret |-> "Err", err |-> update.err, t |-> t, off |-> update.off,
                       panic |-> ""]
                 ELSE IF update.ret = "panic"
                 THEN [ret |-> "panic", err |-> "", t |-> t, off |-> update.off,
                       panic |-> update.err]
                 ELSE LET r == DynamicTable_set_size_soft_limit(t, update.value)
                      IN  IF r.ret = "Err"
                          THEN [ret |-> "Err", err |-> "Failed", t |-> r.t,
                                off |-> update.off, panic |-> ""]
                          ELSE IF r.ret = "panic"
                          THEN [ret |-> "panic", err |-> "", t |-> r.t,
                                off |-> update.off, panic |-> r.panic]
                          ELSE [ret |-> "Again", err |-> "", t |-> r.t,
                                off |-> update.off, panic |-> ""]
        ELSE [ret |-> "Ok", err |-> "", t |-> t, off |-> off, panic |-> ""]

\* the pieces of the blocks of SpecDecoderLoop
LoopItems ==
    { <<32>>,               \* 20: size update to 0
      <<63, 9>>,            \* 3f 09: size update to 40
      <<63>>,               \* 3f: size update cut after its first octet
      <<63, 90>>,           \* 3f 5a: size update to 121, above every hard limit
      <<144>>,              \* 90: indexed, index 16
      <<128>>,              \* 80: indexed, index 0
      <<64, 0, 0>>,         \* 40 00 00: with indexing, name "", value ""
      <<65, 0>>,            \* 41 00: with indexing, name of index 1, value ""
      <<126, 1, 97>>,       \* 7e 01 61: with indexing, name of index 62, value "a"
      <<64, 1>> }           \* 40 01: with indexing, cut after the name length

\* the blocks of at most two pieces
LoopBlocks == {x \o y : x, y \in LoopItems \cup {<<>>}}

\* Decoder::enter_header_block up to the first test of its loop
EnterHeaderBlockBegin(b) ==
    /\ panicked = ""
    /\ phase = "idle"
    /\ block' = b
    /\ offset' = 0
    /\ phase' = "entering"
    /\ last' = [NoLast EXCEPT !.op = "enter_header_block"]
    /\ UNCHANGED <<table, panicked, encoderVars, build>>

\* the state after an iteration of the loop that came to r
EnterHeaderBlockIterationReturns(r) ==
    /\ table' = r.t
    /\ panicked' = r.panic
    /\ offset' = r.off
    /\ phase' = IF r.ret = "Again" THEN "entering"
                ELSE IF r.ret = "Ok" THEN "block" ELSE "failed"
    /\ last' = [NoLast EXCEPT !.op = "iteration", !.ret = r.ret, !.err = r.err]

\* one iteration of the loop of Decoder::enter_header_block
EnterHeaderBlockIteration ==
    /\ panicked = ""
    /\ phase = "entering"
    /\ \E r \in {enter_header_block_iteration(table, block, offset)} :
           EnterHeaderBlockIterationReturns(r)
    /\ UNCHANGED <<block, encoderVars, build>>

\* HeaderBlockDecoder::decode_field, called once more on the block at hand
DecodeFieldAgain ==
    /\ panicked = ""
    /\ phase = "block"
    /\ \E r \in {decode_field(table, block, offset)} : DecodeFieldReturns(r)
    /\ UNCHANGED <<block, phase, encoderVars, build>>

NextDecoderLoop ==
    \/ \E b \in LoopBlocks : EnterHeaderBlockBegin(b)
    \/ EnterHeaderBlockIteration
    \/ DecodeFieldAgain
    \/ DropHeaderBlock

\* decode_field returned nothing more: the end of the block, or a failure
DecodingEnded ==
    /\ last.op = "decode_field"
    /\ last.ret \in {"None", "Err", "panic"}

\* The loop goes on to its next iteration while it is alive, and the caller
\* calls decode_field again while it holds the block and has been returned
\* neither the end of the block nor a failure.
SpecDecoderLoop ==
    /\ InitDecoder
    /\ [][NextDecoderLoop]_vars
    /\ ([]<>(phase # "entering") \/ []<><<EnterHeaderBlockIteration>>_vars)
    /\ ([]<>(phase # "block" \/ panicked # "" \/ DecodingEnded)
           \/ []<><<DecodeFieldAgain>>_vars)

\* C37: for every finite block, repeatedly calling decode_field terminates:
\* every call that returns a field advances the reader by at least one
\* octet and never past the end of the block, so that after at most |block|
\* calls the block decoder returns Ok(None) or an error; and every iteration
\* of the loop of enter_header_block that goes on consumes at least one
\* octet, so that the loop ends.
C37_DecodingTerminates ==
    /\ [](0 <= offset /\ offset <= Len(block))
    /\ [][(last'.op = "decode_field" /\ last'.ret = "Some") => offset' >= offset + 1]_vars
    /\ [][(last'.op = "iteration" /\ last'.ret = "Again") => offset' >= offset + 1]_vars
    /\ (phase = "block") ~> (phase # "block" \/ DecodingEnded)
    /\ (phase = "entering") ~> (phase # "entering")

\* the iterations come to what the loop of enter_header_block comes to
C37_IterationsAreTheLoop ==
    [][last'.op = "iteration" =>
         IF last'.ret = "Again"
         THEN enter_header_block(table', block, offset')
                  = enter_header_block(table, block, offset)
         ELSE enter_header_block(table, block, offset)
                  = [ret |-> last'.ret, err |-> last'.err, t |-> table',
                     off |-> offset', panic |-> panicked']]_vars

\* a size update of two octets was read by an iteration, and the literal
\* behind it by a call of decode_field that ended at the end of the block
C37_Reached ==
    /\ block = <<63, 9, 64, 0, 0>>
    /\ offset = 5
    /\ last.op = "decode_field"
    /\ last.ret = "Some"

\* the end of the block was returned after the last field
C37_EndReached ==
    /\ block = <<144, 65, 0>>
    /\ offset = 3
    /\ last.op = "decode_field"
    /\ last.ret = "None"

\* the number of 7-bit groups the integer rest takes: the least k >= 1 with
\* rest < 128^k
GroupCount(rest) == CHOOSE k \in 1..3 : rest < 128 ^ k /\ (k = 1 \/ rest >= 128 ^ (k - 1))

\* the 7-bit groups of rest, least significant first, the high bit set on
\* every one but the last
Groups(rest) ==
    [i \in 1..GroupCount(rest) |->
        ((rest \div 128 ^ (i - 1)) % 128) + (IF i < GroupCount(rest) THEN 128 ELSE 0)]

\* the octets C38 says encode_u16(P, N, V) emits
EmittedInteger(P, N, V) ==
    IF V < 2 ^ N - 1
    THEN <<P * 2 ^ N + V>>
    ELSE <<P * 2 ^ N + (2 ^ N - 1)>> \o Groups(V - (2 ^ N - 1))

\* C38: encode_u16(P, N, V) emits exactly one octet (P << N) | V when
\* V < 2^N - 1; otherwise it emits (P << N) | (2^N - 1) followed by the 7-bit
\* groups of V - (2^N - 1), least significant first, with the high bit set
\* on every continuation octet except the last; for every N in 1..8, N = 8
\* included, the first octet is computed without overflowing 8-bit shift
\* arithmetic.
C38_EncodedInteger ==
    last.op = "encode_u16" =>
        /\ last.ret = "Ok"
        /\ sink = EmittedInteger(last.prepended, last.prefix_bits, last.value)

\* C38 for the calls of encode_u16 that do not shift a u8 by 8 bits
C38_EncodedIntegerBelow8 ==
    (/\ last.op = "encode_u16"
     /\ ~(last.prefix_bits = 8 /\ last.value >= 255 /\ build = "debug")) =>
        /\ last.ret = "Ok"
        /\ sink = EmittedInteger(last.prepended, last.prefix_bits, last.value)

\* 1337 was written with a prefix of 5 bits as in RFC 7541 C.1.2
C38_Reached ==
    /\ last.op = "encode_u16"
    /\ last.ret = "Ok"
    /\ last.prefix_bits = 5
    /\ last.value = 1337
    /\ sink = <<last.prepended * 32 + 31, 154, 10>>

\* a release build wrote 255 with a prefix of 8 bits
C38_ReleaseReached ==
    /\ last.op = "encode_u16"
    /\ last.ret = "Ok"
    /\ build = "release"
    /\ last.prefix_bits = 8
    /\ last.value = 255
    /\ sink = <<255, 0>>

(***************************************************************************)
(* Table::validate_index beside Table::get (SpecValidateIndex).            *)
(***************************************************************************)
\* the indices validate_index and get are given: none, the ends of the
\* static table, the first dynamic entries, and the greatest u16
ValidatedIndices == {0, 1, StaticEntry_entries_count, Index_dynamic_table_offset,
                     Index_dynamic_table_offset + 1, Index_dynamic_table_offset + 2,
                     U16 - 1}

\* the state after a validate_index that returned ok
ValidateIndexReturns(index, ok) ==
    /\ last' = [NoLast EXCEPT !.op = "validate_index",
                    !.ret = IF ok THEN "Ok" ELSE "Err",
                    !.err = IF ok THEN "" ELSE "Failed",
                    !.arg = index]
    /\ UNCHANGED <<table, panicked>>

\* Table::validate_index
ValidateIndex(index) ==
    /\ panicked = ""
    /\ ValidateIndexReturns(index, Table_validate_index(table, index))
    /\ UNCHANGED <<decoderVars, encoderVars, build>>

NextValidateIndex ==
    \/ \E name \in {<<>>, <<97>>}, value \in {<<>>, <<98>>} : Push(name, value)
    \/ \E s \in PairLimits : SetSizeSoftLimit(s)
    \/ \E h \in CodecLimits : SetSizeHardLimit(h)
    \/ \E index \in ValidatedIndices : Get(index)
    \/ \E index \in ValidatedIndices : ValidateIndex(index)

SpecValidateIndex == InitTable /\ [][NextValidateIndex]_vars

\* C39: for every nonzero index i and every state of the table,
\* validate_index(i) succeeds exactly when get(i) succeeds, both for the
\* indices of 1..Table::len() = 61 + the number of dynamic entries and for
\* no other, and validate_index changes nothing.
C39_ValidateIndexIsGet ==
    /\ [](\A i \in ValidatedIndices \ {0} :
              /\ Table_validate_index(table, i) <=> Table_get(table, i).ret = "Ok"
              /\ Table_validate_index(table, i)
                     <=> (1 <= i /\ i <= StaticEntry_entries_count + Len(table.entries)))
    /\ []((last.op \in {"validate_index", "get"} /\ last.arg # 0) =>
              (last.ret = "Ok"
                   <=> (1 <= last.arg /\ last.arg <= Table_len(table)))
              /\ Table_len(table) = StaticEntry_entries_count + Len(table.entries))
    /\ [][last'.op = "validate_index" =>
              /\ table' = table
              /\ <<block, offset, phase, build, panicked>>'
                     = <<block, offset, phase, build, panicked>>
              /\ encoderVars' = encoderVars]_vars

\* the index of the second of two dynamic entries was validated
C39_Reached ==
    /\ last.op = "validate_index"
    /\ last.ret = "Ok"
    /\ last.arg = Index_dynamic_table_offset + 1
    /\ Len(table.entries) = 2

\* the index behind the last dynamic entry was refused by validate_index
C39_RefusedReached ==
    /\ last.op = "validate_index"
    /\ last.ret = "Err"
    /\ last.arg = Index_dynamic_table_offset + 1
    /\ Len(table.entries) = 1

\* get returned the last of two dynamic entries
C39_GetReached ==
    /\ last.op = "get"
    /\ last.ret = "Ok"
    /\ last.arg = Index_dynamic_table_offset + 1
    /\ Len(table.entries) = 2

====
